---- MODULE Spec2Model ----
(***************************************************************************)
(* Model of the aspose-mcp-preview protocol engine: the stdin frame parser *)
(* (src/protocol/parser.js), the response emitter (src/protocol/ack.js),   *)
(* the session store (src/session/store.js) and the host callbacks of      *)
(* src/index.js.                                                           *)
(*                                                                         *)
(* Execution model.  Node runs one callback at a time.  A stdin 'data'     *)
(* event starts one processData call; the call runs until it awaits real   *)
(* I/O (a file or shared-memory read, the first load of package.json) or   *)
(* until its loop ends.  Awaits of already settled promises only yield to  *)
(* the microtask queue, which is drained before the next event, so no      *)
(* event is delivered while a call is inside its loop (running = TRUE).    *)
(* Each parseMessage call of the loop is one step of the model.            *)
(***************************************************************************)
EXTENDS Integers, Sequences, FiniteSets, TLC

(***************************************************************************)
(* Bytes and JavaScript Buffer operations                                  *)
(***************************************************************************)

\* '\n', the byte parseMessage searches for
NL == 10

\* bytes of the inline length prefix
lengthPrefixSize == 8

\* Lengths beyond +-BigLen are represented as +-BigLen: the code only adds
\* the decoded length to an offset and compares it with buffer.length, and
\* every buffer of the model is far shorter.
BigLen == 100000

Min(a, b) == IF a < b THEN a ELSE b
Max(a, b) == IF a > b THEN a ELSE b

\* Buffer.concat([a, b])
Concat(a, b) == a \o b

\* buf.subarray(start, end) with 0-based offsets: a negative offset counts
\* from the end, offsets are clamped to [0, length], end < start is empty.
ClampIndex(i, len) == IF i < 0 THEN Max(len + i, 0) ELSE Min(i, len)

Subarray(buf, start, end) ==
    SubSeq(buf, ClampIndex(start, Len(buf)) + 1, ClampIndex(end, Len(buf)))

\* buf.subarray(start)
SubarrayFrom(buf, start) == Subarray(buf, start, Len(buf))

\* buf.indexOf('\n'): 0-based offset of the first newline, -1 if none
IndexOf(buf, b) ==
    IF \E i \in 1..Len(buf) : buf[i] = b
    THEN (CHOOSE i \in 1..Len(buf) : buf[i] = b /\ \A j \in 1..(i - 1) : buf[j] # b) - 1
    ELSE -1

\* buf.readBigInt64LE(off) followed by Number(): two's complement, little
\* endian.  The low four bytes are decoded exactly when the high four bytes
\* are a pure sign extension; any other value lies beyond +-2^31.
Low32(buf, off) ==
    buf[off + 1] + 256 * buf[off + 2] + 65536 * buf[off + 3]

ReadBigInt64LE(buf, off) ==
    LET b3 == buf[off + 4]
        hi == {buf[off + i] : i \in 5..8}
        neg == buf[off + 8] >= 128
    IN IF hi = {0} /\ b3 < 64
         THEN Min(Low32(buf, off) + 16777216 * b3, BigLen)
       ELSE IF hi = {255} /\ b3 >= 192
         THEN Max(Low32(buf, off) + 16777216 * (b3 - 256), 0 - BigLen)
       ELSE IF neg THEN 0 - BigLen ELSE BigLen

(***************************************************************************)
(* CRC-32 (calculateCRC32 / getCRC32Table).  A 32-bit unsigned value is a  *)
(* pair <<high 16 bits, low 16 bits>>.                                     *)
(***************************************************************************)

RECURSIVE BitXor(_, _, _)
BitXor(a, b, n) ==
    IF n = 0 THEN 0
    ELSE (((a % 2) + (b % 2)) % 2) + 2 * BitXor(a \div 2, b \div 2, n - 1)

Xor32(x, y) == <<BitXor(x[1], y[1], 16), BitXor(x[2], y[2], 16)>>

\* x >>> 1 and x >>> 8
Shr1(x) == <<x[1] \div 2, (x[2] \div 2) + (x[1] % 2) * 32768>>
Shr8(x) == <<x[1] \div 256, (x[2] \div 256) + (x[1] % 256) * 256>>

\* 0xedb88320 and 0xffffffff
CRCPoly == <<60856, 33568>>
AllOnes == <<65535, 65535>>

RECURSIVE CRCTableEntry(_, _)
CRCTableEntry(c, j) ==
    IF j = 0 THEN c
    ELSE CRCTableEntry(IF c[2] % 2 = 1 THEN Xor32(CRCPoly, Shr1(c)) ELSE Shr1(c), j - 1)

crc32Table == [i \in 0..255 |-> CRCTableEntry(<<0, i>>, 8)]

RECURSIVE CRCLoop(_, _, _)
CRCLoop(crc, data, i) ==
    IF i > Len(data) THEN crc
    ELSE CRCLoop(Xor32(Shr8(crc), crc32Table[BitXor(crc[2] % 256, data[i], 8)]), data, i + 1)

calculateCRC32(data) == Xor32(CRCLoop(AllOnes, data, 1), AllOnes)

\* `let crc32Table = null`
NoTable == <<>>

\* getCRC32Table: the cached table, built on the first call
getCRC32Table(cache) == IF cache = NoTable THEN crc32Table ELSE cache

\* the loop of calculateCRC32 over the table getCRC32Table returned
RECURSIVE CRCLoopOn(_, _, _, _)
CRCLoopOn(table, crc, data, i) ==
    IF i > Len(data) THEN crc
    ELSE CRCLoopOn(table, Xor32(Shr8(crc), table[BitXor(crc[2] % 256, data[i], 8)]),
                   data, i + 1)

\* Mutant: the final `^ 0xffffffff` is missing.
calculateCRC32OnMutNoFinalXor(table, data) == CRCLoopOn(table, AllOnes, data, 1)

\* calculateCRC32 with the table it was handed
calculateCRC32On(table, data) == Xor32(CRCLoopOn(table, AllOnes, data, 1), AllOnes)

(***************************************************************************)
(* Wire format.  A metadata line is one JSON text and a newline.  The JSON *)
(* texts the producer sends are abbreviated to `{c}` (an opening brace,    *)
(* one identifying byte, a closing brace): JSON.parse maps each text of    *)
(* the table to the value the full text stands for and throws on every     *)
(* other byte string.  As with real JSON objects, no proper suffix of an   *)
(* object text is itself a JSON text.                                      *)
(***************************************************************************)

ObjText(c) == <<123, c, 125>>

\* A JavaScript property that is absent reads as undefined.
Undefined == "undefined"
Get(obj, field) == IF field \in DOMAIN obj THEN obj[field] ELSE Undefined

PayloadA == <<65, NL>>
PayloadB == <<66, 67>>

\* The JSON texts `5` and `"s"`: a number and a string.  A primitive value has
\* none of the properties the parser reads, so it decodes to an empty record.
NumberText == <<53>>
StringText == <<34, 115, 34>>
NullText == <<110, 117, 108, 108>>
BadJsonText == <<123, 63>>

JSONTable ==
    { [text |-> ObjText(105), isNull |-> FALSE, value |-> [type |-> "initialize"]],
      [text |-> ObjText(73), isNull |-> FALSE, value |-> [type |-> "initialized"]],
      [text |-> ObjText(104), isNull |-> FALSE, value |-> [type |-> "heartbeat"]],
      [text |-> ObjText(99), isNull |-> FALSE,
       value |-> [type |-> "session_closed", sessionId |-> "a"]],
      [text |-> ObjText(115), isNull |-> FALSE,
       value |-> [type |-> "snapshot", sessionId |-> "a", sequenceNumber |-> 1,
                  checksum |-> calculateCRC32(PayloadA)]],
      [text |-> ObjText(120), isNull |-> FALSE,
       value |-> [type |-> "snapshot", sessionId |-> "a", sequenceNumber |-> 2,
                  checksum |-> calculateCRC32(PayloadA)]],
      [text |-> ObjText(110), isNull |-> FALSE,
       value |-> [type |-> "snapshot", sessionId |-> "b", sequenceNumber |-> 3]],
      [text |-> ObjText(103), isNull |-> FALSE,
       value |-> [type |-> "snapshot", sessionId |-> "b", sequenceNumber |-> 6]],
      [text |-> ObjText(102), isNull |-> FALSE,
       value |-> [type |-> "snapshot", sessionId |-> "a", sequenceNumber |-> 4,
                  transportMode |-> "file", filePath |-> "f"]],
      [text |-> ObjText(109), isNull |-> FALSE,
       value |-> [type |-> "snapshot", sessionId |-> "b", sequenceNumber |-> 5,
                  transportMode |-> "mmap", mmapName |-> "/m", dataSize |-> 1]],
      [text |-> ObjText(122), isNull |-> FALSE, value |-> [type |-> "bogus"]],
      [text |-> <<110, 117, 108, 108>>, isNull |-> TRUE, value |-> <<>>],
      [text |-> ObjText(77), isNull |-> FALSE,
       value |-> [type |-> "snapshot", sessionId |-> "b", sequenceNumber |-> 7,
                  transportMode |-> "mmap", mmapName |-> "/m", dataSize |-> 1,
                  filePath |-> "f"]],
      [text |-> ObjText(117), isNull |-> FALSE,
       value |-> [type |-> "session_unbound", sessionId |-> "a"]],
      [text |-> ObjText(113), isNull |-> FALSE, value |-> [type |-> "shutdown"]],
      [text |-> ObjText(118), isNull |-> FALSE,
       value |-> [type |-> "command", commandId |-> "k1", commandType |-> "get_version"]],
      [text |-> ObjText(114), isNull |-> FALSE,
       value |-> [type |-> "command", commandId |-> "k2", commandType |-> "reload"]],
      [text |-> ObjText(119), isNull |-> FALSE,
       value |-> [type |-> "command", commandType |-> "get_version"]],
      [text |-> ObjText(101), isNull |-> FALSE,
       value |-> [type |-> "command", commandId |-> "", commandType |-> "reload"]],
      [text |-> ObjText(116), isNull |-> FALSE,
       value |-> [type |-> "snapshot", sessionId |-> "a", sequenceNumber |-> 8,
                  transportMode |-> "stdin"]],
      [text |-> ObjText(112), isNull |-> FALSE,
       value |-> [type |-> "snapshot", sessionId |-> "a", sequenceNumber |-> 9,
                  transportMode |-> "pipe"]],
      [text |-> ObjText(121), isNull |-> FALSE,
       value |-> [type |-> "snapshot", sessionId |-> "a", sequenceNumber |-> 10,
                  transportMode |-> ""]],
      [text |-> ObjText(111), isNull |-> FALSE, value |-> [sessionId |-> "a"]],
      [text |-> NumberText, isNull |-> FALSE, value |-> <<>>],
      [text |-> StringText, isNull |-> FALSE, value |-> <<>>] }

\* JSON.parse(jsonLine): the decoded value, or threw = TRUE (SyntaxError)
JSONParse(text) ==
    IF \E e \in JSONTable : e.text = text
    THEN LET e == CHOOSE e \in JSONTable : e.text = text
         IN [threw |-> FALSE, isNull |-> e.isNull, value |-> e.value]
    ELSE [threw |-> TRUE, isNull |-> FALSE, value |-> <<>>]

\* 8-byte little-endian two's complement encodings used by the producer
LE64(n) == <<n, 0, 0, 0, 0, 0, 0, 0>>
LE64MinusOne == <<255, 255, 255, 255, 255, 255, 255, 255>>

LineFrame(text) == text \o <<NL>>
InlineFrame(text, prefix, payload) == text \o <<NL>> \o prefix \o payload

\* Frames whose payload, if any, follows inline and has a proper length
ValidInlineSnapshots ==
    { InlineFrame(ObjText(115), LE64(2), PayloadA),
      InlineFrame(ObjText(110), LE64(0), <<>>) }

Frames ==
    ValidInlineSnapshots \cup
    { LineFrame(ObjText(105)),
      LineFrame(ObjText(73)),
      LineFrame(ObjText(104)),
      LineFrame(ObjText(99)),
      InlineFrame(ObjText(120), LE64(2), PayloadB),
      InlineFrame(ObjText(103), LE64MinusOne, <<>>),
      LineFrame(ObjText(102)),
      LineFrame(ObjText(109)),
      LineFrame(ObjText(122)),
      LineFrame(<<110, 117, 108, 108>>),
      LineFrame(<<123, 63>>) }

\* The producer sends at most MaxFrames frames.
MaxFrames == 2

RECURSIVE StreamsOf(_, _)
StreamsOf(frames, n) ==
    IF n = 0 THEN {<<>>}
    ELSE LET shorter == StreamsOf(frames, n - 1)
         IN shorter \cup {s \o f : s \in shorter, f \in frames}

Streams == StreamsOf(Frames, MaxFrames)

\* What a read of the file or region named in a snapshot returns on success
FileData == <<70>>

(***************************************************************************)
(* State                                                                   *)
(***************************************************************************)

VARIABLES
    input,              \* bytes written by the producer, not yet delivered by stdin
    fed,                \* history: every byte passed to processData, in order
    consumed,           \* history: the frames recognised so far, byte by byte
    buffer,             \* parser.js `buffer`
    started,            \* parser.js `started` (the 'data' listener is attached)
    flowing,            \* stdin was switched to flowing mode by a first start()
    handshakeComplete,  \* parser.js module variable `handshakeComplete`
    running,            \* a processData call is inside its while loop
    pending,            \* processData calls suspended on I/O, oldest first
    packageInfo,        \* ack.js `packageInfo` has been loaded
    trace,              \* stdout lines and parser callbacks, in order of occurrence
    sessions,           \* store.js `sessionStore.sessions`, as a set of entries
    published,          \* messages handed to broadcast, in order
    serverStarted,      \* index.js `serverStarted`
    server,             \* index.js `server`: "null" or "created"
    hostPc,             \* where the body of onInitialized stands
    stops,              \* history: number of stop() calls so far
    currentPlatform,    \* mmap.js `currentPlatform` (os.platform())
    windowsInitialized, \* mmap.js `windowsInitialized`
    windowsInitError,   \* mmap.js `windowsInitError` is set
    kernel32,           \* mmap.js `kernel32` is bound (not null)
    kernelCalls,        \* the calls made through kernel32, with their handles
    clients,            \* websocket.js `clients`: the sockets registered, in insertion order
    readyState,         \* ws `readyState` of every socket
    sent,               \* what was passed to send() of every socket, in order
    socketError,        \* sockets whose connection failed while ws still reports OPEN
    undelivered,        \* what was passed to send() of a failed socket and is lost
    raised,             \* sockets whose 'close' or 'error' handler has run
    exitState,          \* the process: "running", "stopping" (in stopServer) or "exited"
    transport,          \* options.transport of createProtocolParser (config.transport)
    otherParser,        \* a second instance made by createProtocolParser: its
                        \* `buffer` and the number of chunks it was given
    cachedTable,        \* parser.js `let crc32Table`: empty (null) until
                        \* getCRC32Table has built the table
    viewer              \* app.js of one viewer page: `state.ws` (its readyState),
                        \* `state.reconnectAttempts`, the pending setTimeout
                        \* callbacks, and how many times the socket opened,
                        \* closed and a reconnect was scheduled

vars == <<input, fed, consumed, buffer, started, flowing, handshakeComplete, running,
          pending, packageInfo, trace, sessions, published, serverStarted, server,
          hostPc, stops, currentPlatform, windowsInitialized, windowsInitError, kernel32,
          kernelCalls,
          clients, readyState, sent, socketError, undelivered, raised, exitState,
          transport, otherParser, cachedTable, viewer>>

mmapVars == <<currentPlatform, windowsInitialized, windowsInitError, kernel32, kernelCalls>>
wsVars == <<clients, readyState, sent, socketError, undelivered, raised>>
wsConnVars == <<clients, readyState, socketError, raised>>
procVars == <<exitState, transport, otherParser, cachedTable, viewer>>

parserVars == <<buffer, handshakeComplete, running, pending, packageInfo, consumed>>
hostVars == <<sessions, published, serverStarted, server, hostPc>>
stdinVars == <<input, fed, started, flowing, stops>>

\* config.transport when neither --transport nor ASPOSE_PREVIEW_TRANSPORT is given
defaultTransport == "stdin"

\* The sockets that may connect to /ws
Sockets == {"w1", "w2"}

\* createProtocolParser: `let buffer = Buffer.alloc(0)`; no chunk given yet
NewParser == [buffer |-> <<>>, chunks |-> 0]

\* app.js `state` when the page is loaded: `ws: null, reconnectAttempts: 0`;
\* no timer is pending and nothing has happened
NewViewer == [ws |-> "null", reconnectAttempts |-> 0, timers |-> 0,
              opens |-> 0, closes |-> 0, scheduled |-> 0]

\* mmap.js module state on the given platform
InitMmap(platform) ==
    /\ currentPlatform = platform
    /\ windowsInitialized = FALSE
    /\ windowsInitError = FALSE
    /\ kernel32 = FALSE
    /\ kernelCalls = <<>>

\* websocket.js module state: no client has connected
InitWs ==
    /\ clients = <<>>
    /\ readyState = [w \in Sockets |-> "NONE"]
    /\ sent = [w \in Sockets |-> <<>>]
    /\ socketError = {}
    /\ undelivered = [w \in Sockets |-> <<>>]
    /\ raised = {}

(***************************************************************************)
(* broadcast (websocket.js)                                                *)
(***************************************************************************)

\* Mutant: every registered client counts as open.
IsOpenMutAnyState(client) == TRUE

\* client.readyState === 1
IsOpen(client) == readyState[client] = "OPEN"

\* client.send(json): ws takes the frame; on a failed connection it is lost
\* and the failure is reported later, by an event
clientSend(channels, client, message) ==
    [sent |-> [channels.sent EXCEPT ![client] = Append(@, message)],
     undelivered |-> IF client \in socketError
                       THEN [channels.undelivered EXCEPT ![client] = Append(@, message)]
                       ELSE channels.undelivered]

RECURSIVE broadcastLoopMutSendThrows(_, _, _)
\* Mutant: send() on a failed connection throws, which ends the loop.
broadcastLoopMutSendThrows(cs, channels, message) ==
    IF cs = <<>> THEN channels
    ELSE IF IsOpen(Head(cs)) /\ Head(cs) \in socketError THEN channels
    ELSE broadcastLoopMutSendThrows(Tail(cs),
             IF IsOpen(Head(cs)) THEN clientSend(channels, Head(cs), message)
                                 ELSE channels,
             message)

RECURSIVE broadcastLoop(_, _, _)
\* for (const client of clients) if (client.readyState === 1) client.send(json)
broadcastLoop(cs, channels, message) ==
    IF cs = <<>> THEN channels
    ELSE broadcastLoop(Tail(cs),
             IF IsOpen(Head(cs)) THEN clientSend(channels, Head(cs), message)
                                 ELSE channels,
             message)

RECURSIVE broadcastAll(_, _)
\* the broadcast calls of one callback, one after the other
broadcastAll(messages, channels) ==
    IF messages = <<>> THEN channels
    ELSE broadcastAll(Tail(messages), broadcastLoop(clients, channels, Head(messages)))

\* broadcast(message) for every message of `messages`
broadcast(messages) ==
    LET channels == broadcastAll(messages, [sent |-> sent, undelivered |-> undelivered])
    IN /\ published' = published \o messages
       /\ sent' = channels.sent
       /\ undelivered' = channels.undelivered

Init ==
    /\ input \in Streams
    /\ fed = <<>>
    /\ consumed = <<>>
    /\ buffer = <<>>
    /\ started = FALSE
    /\ flowing = FALSE
    /\ handshakeComplete = FALSE
    /\ running = FALSE
    /\ pending = <<>>
    /\ packageInfo = FALSE
    /\ trace = <<>>
    /\ sessions = {}
    /\ published = <<>>
    /\ serverStarted = FALSE
    /\ server = "null"
    /\ hostPc = "idle"
    /\ stops = 0
    /\ InitMmap("linux")
    /\ InitWs
    /\ exitState = "running"
    /\ transport = defaultTransport
    /\ otherParser = NewParser
    /\ cachedTable = NoTable
    /\ viewer = NewViewer

(***************************************************************************)
(* Response emitter (ack.js): the line written to stdout                   *)
(***************************************************************************)

sendAck(sequenceNumber) ==
    [ev |-> "ack", sequenceNumber |-> sequenceNumber, status |-> "processed"]

sendPong == [ev |-> "pong"]

\* name and version of package.json
PackageName == "aspose-mcp-preview"
PackageVersion == "1.0.0"

sendInitializeResponse ==
    [ev |-> "initialize_response", name |-> PackageName, version |-> PackageVersion]

\* JavaScript null.  The result and the error text of a command are kept as
\* records, so that either can be compared with null.
Null == [null |-> TRUE]
UnknownCommandType == [message |-> "Unknown command type"]

\* sendCommandResult(commandId, success, result, error): result is set only
\* on success, error only on failure
sendCommandResult(commandId, success, result, error) ==
    IF success /\ result # Null
      THEN [ev |-> "command_result", commandId |-> commandId, success |-> success,
            result |-> result]
    ELSE IF ~success /\ error # Null
      THEN [ev |-> "command_result", commandId |-> commandId, success |-> success,
            error |-> error]
    ELSE [ev |-> "command_result", commandId |-> commandId, success |-> success]

\* getVersion(): the version of package.json, 'unknown' when it cannot be read
Versions == {PackageVersion, "unknown"}

\* A string-valued property that JavaScript takes as false: absent or empty
Falsy(v) == v \in {Undefined, ""}

\* Mutant: a command of unknown type is answered with a result and an error.
handleCommandMutResultAndError(metadata, version) ==
    IF Falsy(Get(metadata, "commandId")) THEN <<>>
    ELSE IF Get(metadata, "commandType") = "get_version"
      THEN <<sendCommandResult(metadata.commandId, TRUE, [version |-> version], Null)>>
    ELSE <<[ev |-> "command_result", commandId |-> metadata.commandId, success |-> FALSE,
            result |-> Null, error |-> UnknownCommandType]>>

\* handleCommand(metadata): the lines it writes to stdout
handleCommand(metadata, version) ==
    IF Falsy(Get(metadata, "commandId")) THEN <<>>
    ELSE IF Get(metadata, "commandType") = "get_version"
      THEN <<sendCommandResult(metadata.commandId, TRUE, [version |-> version], Null)>>
    ELSE <<sendCommandResult(metadata.commandId, FALSE, Null, UnknownCommandType)>>

(***************************************************************************)
(* Session store (store.js)                                                *)
(***************************************************************************)

\* Map.prototype.set / delete / has on a map kept as a set of entries

\* Mutant: the entry of the key is added without replacing the old one.
MapSetMutKeepsOld(map, key, value) == map \cup {value}

MapSet(map, key, value) == {e \in map : e.sessionId # key} \cup {value}
MapDelete(map, key) == {e \in map : e.sessionId # key}
MapHas(map, key) == \E e \in map : e.sessionId = key

\* Mutant: an existing record is kept instead of being replaced.
updateSnapshotMutKeepsExisting(map, sessionId, metadata, data) ==
    IF MapHas(map, sessionId) THEN map
    ELSE MapSet(map, sessionId,
                [sessionId |-> sessionId,
                 documentType |-> Get(metadata, "documentType"),
                 originalPath |-> Get(metadata, "originalPath"),
                 outputFormat |-> Get(metadata, "outputFormat"),
                 mimeType |-> Get(metadata, "mimeType"),
                 timestamp |-> Get(metadata, "timestamp"),
                 sequenceNumber |-> Get(metadata, "sequenceNumber"),
                 data |-> data,
                 hasUpdate |-> TRUE])

updateSnapshot(map, sessionId, metadata, data) ==
    MapSet(map, sessionId,
           [sessionId |-> sessionId,
            documentType |-> Get(metadata, "documentType"),
            originalPath |-> Get(metadata, "originalPath"),
            outputFormat |-> Get(metadata, "outputFormat"),
            mimeType |-> Get(metadata, "mimeType"),
            timestamp |-> Get(metadata, "timestamp"),
            sequenceNumber |-> Get(metadata, "sequenceNumber"),
            data |-> data,
            hasUpdate |-> TRUE])

removeSession(map, sessionId) == MapDelete(map, sessionId)

(***************************************************************************)
(* Host callbacks (index.js main): their effect on the store and the       *)
(* messages they broadcast                                                 *)
(***************************************************************************)

\* what getSession(sessionId).data returns: the payloads held for the session
StoredData(map, sessionId) == {e.data : e \in {r \in map : r.sessionId = sessionId}}

\* Mutant: the 'snapshot' event is broadcast before the store is updated.
HostOnSnapshotMutBroadcastsFirst(metadata, data) ==
    /\ sessions' = updateSnapshot(sessions, Get(metadata, "sessionId"), metadata, data)
    /\ broadcast(<< [type |-> "snapshot", sessionId |-> Get(metadata, "sessionId"),
                     stored |-> StoredData(sessions, Get(metadata, "sessionId"))],
                    [type |-> "log", level |-> "info",
                     sessionId |-> Get(metadata, "sessionId"),
                     sequenceNumber |-> Get(metadata, "sequenceNumber")] >>)
    /\ UNCHANGED <<serverStarted, server, hostPc>>

\* onSnapshot: updateSnapshot, then the 'snapshot' and the 'log' broadcast;
\* the event notes, as `stored`, what the store holds for the session when
\* the event is sent
HostOnSnapshot(metadata, data) ==
    LET updated == updateSnapshot(sessions, Get(metadata, "sessionId"), metadata, data)
    IN /\ sessions' = updated
       /\ broadcast(<< [type |-> "snapshot", sessionId |-> Get(metadata, "sessionId"),
                        stored |-> StoredData(updated, Get(metadata, "sessionId"))],
                       [type |-> "log", level |-> "info",
                        sessionId |-> Get(metadata, "sessionId"),
                        sequenceNumber |-> Get(metadata, "sequenceNumber")] >>)
       /\ UNCHANGED <<serverStarted, server, hostPc>>

HostOnHeartbeat ==
    /\ broadcast(<<[type |-> "log", level |-> "debug"]>>)
    /\ UNCHANGED <<sessions, serverStarted, server, hostPc>>

\* The callbacks below run removeSession and then broadcast.  The entry of
\* the broadcast in `published` notes, as `registered`, whether the store
\* held a record of the session at the moment broadcast was called.

\* Mutant: the event is broadcast before the record is removed.
HostOnSessionClosedMutBroadcastsFirst(sessionId) ==
    /\ sessions' = removeSession(sessions, sessionId)
    /\ broadcast(<<[type |-> "session_closed", sessionId |-> sessionId,
                                       registered |-> MapHas(sessions, sessionId)]>>)
    /\ UNCHANGED <<serverStarted, server, hostPc>>

HostOnSessionClosed(sessionId) ==
    LET removed == removeSession(sessions, sessionId)
    IN /\ sessions' = removed
       /\ broadcast(<<[type |-> "session_closed", sessionId |-> sessionId,
                                          registered |-> MapHas(removed, sessionId)]>>)
       /\ UNCHANGED <<serverStarted, server, hostPc>>

HostOnSessionUnbound(sessionId) ==
    LET removed == removeSession(sessions, sessionId)
    IN /\ sessions' = removed
       /\ broadcast(<<[type |-> "session_unbound", sessionId |-> sessionId,
                                          registered |-> MapHas(removed, sessionId)]>>)
       /\ UNCHANGED <<serverStarted, server, hostPc>>

HostOnError ==
    /\ broadcast(<<[type |-> "log", level |-> "error"]>>)
    /\ UNCHANGED <<sessions, serverStarted, server, hostPc>>

\* onInitialized up to its first await
\* Mutant: serverStarted is not tested.
HostOnInitializedMutNoGuard ==
    /\ serverStarted' = TRUE
    /\ hostPc' = "createServer"
    /\ UNCHANGED <<sessions, published, server>>

HostOnInitialized ==
    /\ IF ~serverStarted
         THEN serverStarted' = TRUE /\ hostPc' = "createServer"
         ELSE UNCHANGED <<serverStarted, hostPc>>
    /\ UNCHANGED <<sessions, published, server>>

(***************************************************************************)
(* Frame parser (parser.js): what parseMessage reads from the buffer       *)
(***************************************************************************)

newlineIndex == IndexOf(buffer, NL)
jsonLine == Subarray(buffer, 0, newlineIndex)
parsed == JSONParse(jsonLine)
metadata == parsed.value
msgType == Get(metadata, "type")

KnownTypes == {"initialize", "initialized", "heartbeat", "session_closed",
               "session_unbound", "shutdown", "snapshot", "command"}

\* parseMessage is entered with a decodable, non-null line of type t at the head
HeadIs(t) ==
    /\ running
    /\ newlineIndex # -1
    /\ ~parsed.threw
    /\ ~parsed.isNull
    /\ msgType = t

\* Mutant: the byte after the newline is dropped with the line.
DropLineMutOneMore(buf, nl) == SubarrayFrom(buf, nl + 2)

\* buffer = buffer.subarray(newlineIndex + 1)
DropLine(buf, nl) == SubarrayFrom(buf, nl + 1)

\* The bytes of the line at the head and its newline
WireLine == SubSeq(buffer, 1, newlineIndex + 1)

\* Mutant: the transportMode of the message is not looked at.
transportModeMutIgnoresMessage == transport

\* metadata.transportMode || defaultTransport
transportMode ==
    IF Falsy(Get(metadata, "transportMode")) THEN transport
    ELSE metadata.transportMode

dataStart == newlineIndex + 1

\* Mutant: only the length prefix is awaited, not the payload.
InlineNeedsMoreMutPrefixOnly(buf, start) == Len(buf) < start + lengthPrefixSize

\* the two `return false` tests of the inline path
InlineNeedsMore(buf, start) ==
    IF Len(buf) < start + lengthPrefixSize THEN TRUE
    ELSE Len(buf) < start + lengthPrefixSize + ReadBigInt64LE(buf, start)

totalSize == dataStart + lengthPrefixSize + ReadBigInt64LE(buffer, dataStart)
binaryData == Subarray(buffer, dataStart + lengthPrefixSize, totalSize)

\* metadata.checksum !== undefined && calculateCRC32(binaryData) !== metadata.checksum
ChecksumMismatch(m, data) ==
    /\ "checksum" \in DOMAIN m
    /\ calculateCRC32(data) # m.checksum

\* The inline frame at the head as the wire format defines it: the line, the
\* 8-byte prefix and as many payload bytes as the prefix declares (as many
\* of them as are buffered).
WireInlineFrame ==
    SubSeq(buffer, 1,
           Min(Len(buffer),
               dataStart + lengthPrefixSize + Max(ReadBigInt64LE(buffer, dataStart), 0)))

Remove(seq, i) == SubSeq(seq, 1, i - 1) \o SubSeq(seq, i + 1, Len(seq))

(***************************************************************************)
(* stdin and the parser's life cycle                                       *)
(***************************************************************************)

\* start(): attach the 'data' listener once
Start ==
    /\ ~running
    /\ ~started
    /\ started' = TRUE
    /\ flowing' = TRUE
    /\ UNCHANGED <<input, fed, stops, parserVars, trace, hostVars>>
    /\ UNCHANGED <<mmapVars, wsVars, procVars>>

\* stdin 'data' handler up to the loop of processData: append the chunk
StdinData(k) ==
    /\ ~running
    /\ started
    /\ k \in 1..Len(input)
    /\ input' = SubSeq(input, k + 1, Len(input))
    /\ fed' = fed \o SubSeq(input, 1, k)
    /\ buffer' = Concat(buffer, SubSeq(input, 1, k))
    /\ running' = TRUE
    /\ UNCHANGED <<consumed, started, flowing, stops, handshakeComplete, pending,
                   packageInfo, trace, hostVars>>
    /\ UNCHANGED <<mmapVars, wsVars, procVars>>

(***************************************************************************)
(* One parseMessage call of the loop `while (await parseMessage())`        *)
(***************************************************************************)

\* no newline: return false, the loop and the processData call end
ParseNoNewline ==
    /\ running
    /\ newlineIndex = -1
    /\ running' = FALSE
    /\ UNCHANGED <<stdinVars, buffer, consumed, handshakeComplete, pending, packageInfo,
                   trace, hostVars>>
    /\ UNCHANGED <<mmapVars, wsVars, procVars>>

\* JSON.parse throws: onError, drop the line, return true
ParseJsonError ==
    /\ running
    /\ newlineIndex # -1
    /\ parsed.threw
    /\ trace' = Append(trace, [ev |-> "onError", cause |-> "json"])
    /\ HostOnError
    /\ buffer' = DropLine(buffer, newlineIndex)
    /\ consumed' = consumed \o WireLine
    /\ UNCHANGED <<stdinVars, handshakeComplete, running, pending, packageInfo>>
    /\ UNCHANGED <<mmapVars, wsConnVars, procVars>>

\* JSON.parse returns null: `metadata.type` throws a TypeError, parseMessage and
\* processData reject, and the 'data' handler's catch reports it
ParseTypeError ==
    /\ running
    /\ newlineIndex # -1
    /\ ~parsed.threw
    /\ parsed.isNull
    /\ trace' = Append(trace, [ev |-> "onError", cause |-> "type"])
    /\ HostOnError
    /\ running' = FALSE
    /\ UNCHANGED <<stdinVars, buffer, consumed, handshakeComplete, pending, packageInfo>>
    /\ UNCHANGED <<mmapVars, wsConnVars, procVars>>

\* Mutant: a repeated initialize is not answered.
ParseInitializeCachedMutSilent ==
    /\ HeadIs("initialize")
    /\ packageInfo
    /\ buffer' = DropLine(buffer, newlineIndex)
    /\ consumed' = consumed \o WireLine
    /\ UNCHANGED <<stdinVars, handshakeComplete, running, pending, packageInfo, trace,
                   hostVars>>
    /\ UNCHANGED <<mmapVars, wsVars, procVars>>

\* case 'initialize' with packageInfo cached: the response is written at once
ParseInitializeCached ==
    /\ HeadIs("initialize")
    /\ packageInfo
    /\ buffer' = DropLine(buffer, newlineIndex)
    /\ consumed' = consumed \o WireLine
    /\ trace' = Append(trace, sendInitializeResponse)
    /\ UNCHANGED <<stdinVars, handshakeComplete, running, pending, packageInfo, hostVars>>
    /\ UNCHANGED <<mmapVars, wsVars, procVars>>

\* case 'initialize', first use: the call waits for package.json to be read
ParseInitializeLoad ==
    /\ HeadIs("initialize")
    /\ ~packageInfo
    /\ buffer' = DropLine(buffer, newlineIndex)
    /\ consumed' = consumed \o WireLine
    /\ pending' = Append(pending, [op |-> "init", metadata |-> metadata])
    /\ running' = FALSE
    /\ UNCHANGED <<stdinVars, handshakeComplete, packageInfo, trace, hostVars>>
    /\ UNCHANGED <<mmapVars, wsVars, procVars>>

\* getPackageInfo resolves: write the response, return true, the loop goes on
PackageInfoLoaded(i) ==
    /\ ~running
    /\ i \in DOMAIN pending
    /\ pending[i].op = "init"
    /\ packageInfo' = TRUE
    /\ trace' = Append(trace, sendInitializeResponse)
    /\ pending' = Remove(pending, i)
    /\ running' = TRUE
    /\ UNCHANGED <<stdinVars, buffer, consumed, handshakeComplete, hostVars>>
    /\ UNCHANGED <<mmapVars, wsVars, procVars>>

\* case 'initialized'
ParseInitialized ==
    /\ HeadIs("initialized")
    /\ buffer' = DropLine(buffer, newlineIndex)
    /\ consumed' = consumed \o WireLine
    /\ handshakeComplete' = TRUE
    /\ trace' = Append(trace, [ev |-> "onInitialized"])
    /\ HostOnInitialized
    /\ UNCHANGED <<stdinVars, running, pending, packageInfo>>
    /\ UNCHANGED <<mmapVars, wsVars, procVars>>

\* Mutant: the notification comes before the pong line.
ParseHeartbeatMutNotifiesFirst ==
    /\ HeadIs("heartbeat")
    /\ buffer' = DropLine(buffer, newlineIndex)
    /\ consumed' = consumed \o WireLine
    /\ trace' = trace \o <<[ev |-> "onHeartbeat"], sendPong>>
    /\ HostOnHeartbeat
    /\ UNCHANGED <<stdinVars, handshakeComplete, running, pending, packageInfo>>
    /\ UNCHANGED <<mmapVars, wsConnVars, procVars>>

\* case 'heartbeat'
ParseHeartbeat ==
    /\ HeadIs("heartbeat")
    /\ buffer' = DropLine(buffer, newlineIndex)
    /\ consumed' = consumed \o WireLine
    /\ trace' = trace \o <<sendPong, [ev |-> "onHeartbeat"]>>
    /\ HostOnHeartbeat
    /\ UNCHANGED <<stdinVars, handshakeComplete, running, pending, packageInfo>>
    /\ UNCHANGED <<mmapVars, wsConnVars, procVars>>

\* Mutant: before the handshake a session_closed line is only skipped.
ParseSessionClosedMutNeedsHandshake ==
    /\ HeadIs("session_closed")
    /\ buffer' = DropLine(buffer, newlineIndex)
    /\ consumed' = consumed \o WireLine
    /\ IF handshakeComplete
         THEN /\ trace' = Append(trace, [ev |-> "onSessionClosed",
                                         sessionId |-> Get(metadata, "sessionId")])
              /\ HostOnSessionClosed(Get(metadata, "sessionId"))
         ELSE UNCHANGED <<trace, hostVars, sent, undelivered>>
    /\ UNCHANGED <<stdinVars, handshakeComplete, running, pending, packageInfo>>
    /\ UNCHANGED <<mmapVars, wsConnVars, procVars>>

\* case 'session_closed'
ParseSessionClosed ==
    /\ HeadIs("session_closed")
    /\ buffer' = DropLine(buffer, newlineIndex)
    /\ consumed' = consumed \o WireLine
    /\ trace' = Append(trace, [ev |-> "onSessionClosed",
                               sessionId |-> Get(metadata, "sessionId")])
    /\ HostOnSessionClosed(Get(metadata, "sessionId"))
    /\ UNCHANGED <<stdinVars, handshakeComplete, running, pending, packageInfo>>
    /\ UNCHANGED <<mmapVars, wsConnVars, procVars>>

\* default: unknown type
ParseUnknown ==
    /\ running
    /\ newlineIndex # -1
    /\ ~parsed.threw
    /\ ~parsed.isNull
    /\ msgType \notin KnownTypes
    /\ buffer' = DropLine(buffer, newlineIndex)
    /\ consumed' = consumed \o WireLine
    /\ UNCHANGED <<stdinVars, handshakeComplete, running, pending, packageInfo, trace,
                   hostVars>>
    /\ UNCHANGED <<mmapVars, wsVars, procVars>>

(***************************************************************************)
(* parseSnapshot                                                           *)
(***************************************************************************)

\* transportMode 'file': drop the line, then await readFromFile
ParseSnapshotFile ==
    /\ HeadIs("snapshot")
    /\ transportMode = "file"
    /\ buffer' = DropLine(buffer, newlineIndex)
    /\ consumed' = consumed \o WireLine
    /\ pending' = Append(pending, [op |-> "file", metadata |-> metadata])
    /\ running' = FALSE
    /\ UNCHANGED <<stdinVars, handshakeComplete, packageInfo, trace, hostVars>>
    /\ UNCHANGED <<mmapVars, wsVars, procVars>>

\* transportMode 'mmap' on linux: drop the line, then await the read of
\* /dev/shm<mmapName> (readFromLinuxMmap)
ParseSnapshotMmap ==
    /\ HeadIs("snapshot")
    /\ transportMode = "mmap"
    /\ currentPlatform = "linux"
    /\ buffer' = DropLine(buffer, newlineIndex)
    /\ consumed' = consumed \o WireLine
    /\ pending' = Append(pending, [op |-> "mmap", metadata |-> metadata])
    /\ running' = FALSE
    /\ UNCHANGED <<stdinVars, handshakeComplete, packageInfo, trace, hostVars>>
    /\ UNCHANGED <<mmapVars, wsVars, procVars>>

\* readFile(undefined) and path.join('/dev/shm', undefined) throw: a read
\* can succeed only if the message names its file or region
ReadTargetGiven(call) ==
    IF call.op = "file" THEN "filePath" \in DOMAIN call.metadata
    ELSE "mmapName" \in DOMAIN call.metadata

\* the awaited read resolves: ack, deliver, return true, the loop goes on
ReadSucceeds(i) ==
    /\ ~running
    /\ i \in DOMAIN pending
    /\ pending[i].op \in {"file", "mmap"}
    /\ ReadTargetGiven(pending[i])
    /\ trace' = trace \o
         << sendAck(Get(pending[i].metadata, "sequenceNumber")),
            [ev |-> "onSnapshot", metadata |-> pending[i].metadata, data |-> FileData] >>
    /\ HostOnSnapshot(pending[i].metadata, FileData)
    /\ pending' = Remove(pending, i)
    /\ running' = TRUE
    /\ UNCHANGED <<stdinVars, buffer, consumed, handshakeComplete, packageInfo>>
    /\ UNCHANGED <<mmapVars, wsConnVars, procVars>>

\* Mutant: a failed read is answered with an ack of status "error".
ReadFailsMutSendsErrorAck(i) ==
    /\ ~running
    /\ i \in DOMAIN pending
    /\ pending[i].op \in {"file", "mmap"}
    /\ trace' = trace \o
         << [ev |-> "ack", sequenceNumber |-> Get(pending[i].metadata, "sequenceNumber"),
             status |-> "error"],
            [ev |-> "onError", cause |-> pending[i].op] >>
    /\ HostOnError
    /\ pending' = Remove(pending, i)
    /\ running' = TRUE
    /\ UNCHANGED <<stdinVars, buffer, consumed, handshakeComplete, packageInfo>>
    /\ UNCHANGED <<mmapVars, wsConnVars, procVars>>

\* the awaited read rejects: onError, return true, the loop goes on
ReadFails(i) ==
    /\ ~running
    /\ i \in DOMAIN pending
    /\ pending[i].op \in {"file", "mmap"}
    /\ trace' = Append(trace, [ev |-> "onError", cause |-> pending[i].op])
    /\ HostOnError
    /\ pending' = Remove(pending, i)
    /\ running' = TRUE
    /\ UNCHANGED <<stdinVars, buffer, consumed, handshakeComplete, packageInfo>>
    /\ UNCHANGED <<mmapVars, wsConnVars, procVars>>

\* Mutant: the metadata line is dropped before the frame is complete.
ParseSnapshotInlineNeedMoreMutDropsLine ==
    /\ HeadIs("snapshot")
    /\ transportMode \notin {"file", "mmap"}
    /\ InlineNeedsMore(buffer, dataStart)
    /\ buffer' = DropLine(buffer, newlineIndex)
    /\ running' = FALSE
    /\ UNCHANGED <<stdinVars, consumed, handshakeComplete, pending, packageInfo,
                   trace, hostVars>>
    /\ UNCHANGED <<mmapVars, wsVars, procVars>>

\* inline: the prefix or the payload is not complete yet: return false
ParseSnapshotInlineNeedMore ==
    /\ HeadIs("snapshot")
    /\ transportMode \notin {"file", "mmap"}
    /\ InlineNeedsMore(buffer, dataStart)
    /\ running' = FALSE
    /\ UNCHANGED <<stdinVars, buffer, consumed, handshakeComplete, pending, packageInfo,
                   trace, hostVars>>
    /\ UNCHANGED <<mmapVars, wsVars, procVars>>

\* Mutant: the `return true` after the checksum error is missing, so the frame
\* is acknowledged and delivered all the same.
ParseSnapshotInlineMismatchMutFallsThrough ==
    /\ HeadIs("snapshot")
    /\ transportMode \notin {"file", "mmap"}
    /\ ~InlineNeedsMore(buffer, dataStart)
    /\ ChecksumMismatch(metadata, binaryData)
    /\ buffer' = SubarrayFrom(buffer, totalSize)
    /\ consumed' = consumed \o WireInlineFrame
    /\ trace' = trace \o
         << [ev |-> "onError", cause |-> "checksum"],
            sendAck(Get(metadata, "sequenceNumber")),
            [ev |-> "onSnapshot", metadata |-> metadata, data |-> binaryData] >>
    /\ HostOnSnapshot(metadata, binaryData)
    /\ UNCHANGED <<stdinVars, handshakeComplete, running, pending, packageInfo>>
    /\ UNCHANGED <<mmapVars, wsConnVars, procVars>>

\* inline, complete, checksum mismatch: drop the frame, onError, return true
ParseSnapshotInlineMismatch ==
    /\ HeadIs("snapshot")
    /\ transportMode \notin {"file", "mmap"}
    /\ ~InlineNeedsMore(buffer, dataStart)
    /\ ChecksumMismatch(metadata, binaryData)
    /\ buffer' = SubarrayFrom(buffer, totalSize)
    /\ consumed' = consumed \o WireInlineFrame
    /\ trace' = Append(trace, [ev |-> "onError", cause |-> "checksum"])
    /\ HostOnError
    /\ UNCHANGED <<stdinVars, handshakeComplete, running, pending, packageInfo>>
    /\ UNCHANGED <<mmapVars, wsConnVars, procVars>>

\* Mutant: the snapshot is delivered first and acknowledged afterwards.
ParseSnapshotInlineDeliverMutDeliversFirst ==
    /\ HeadIs("snapshot")
    /\ transportMode \notin {"file", "mmap"}
    /\ ~InlineNeedsMore(buffer, dataStart)
    /\ ~ChecksumMismatch(metadata, binaryData)
    /\ buffer' = SubarrayFrom(buffer, totalSize)
    /\ consumed' = consumed \o WireInlineFrame
    /\ trace' = trace \o
         << [ev |-> "onSnapshot", metadata |-> metadata, data |-> binaryData],
            sendAck(Get(metadata, "sequenceNumber")) >>
    /\ HostOnSnapshot(metadata, binaryData)
    /\ UNCHANGED <<stdinVars, handshakeComplete, running, pending, packageInfo>>
    /\ UNCHANGED <<mmapVars, wsConnVars, procVars>>

\* inline, complete, checksum absent or equal: drop the frame, ack, deliver
ParseSnapshotInlineDeliver ==
    /\ HeadIs("snapshot")
    /\ transportMode \notin {"file", "mmap"}
    /\ ~InlineNeedsMore(buffer, dataStart)
    /\ ~ChecksumMismatch(metadata, binaryData)
    /\ buffer' = SubarrayFrom(buffer, totalSize)
    /\ consumed' = consumed \o WireInlineFrame
    /\ trace' = trace \o
         << sendAck(Get(metadata, "sequenceNumber")),
            [ev |-> "onSnapshot", metadata |-> metadata, data |-> binaryData] >>
    /\ HostOnSnapshot(metadata, binaryData)
    /\ UNCHANGED <<stdinVars, handshakeComplete, running, pending, packageInfo>>
    /\ UNCHANGED <<mmapVars, wsConnVars, procVars>>

(***************************************************************************)
(* The rest of onInitialized (index.js): createServer, startServer,        *)
(* openBrowser, then the handshake log is broadcast                        *)
(***************************************************************************)

CreateServerDone ==
    /\ ~running
    /\ hostPc = "createServer"
    /\ server' = "created"
    /\ hostPc' = "startServer"
    /\ UNCHANGED <<stdinVars, parserVars, trace, sessions, published, serverStarted>>
    /\ UNCHANGED <<mmapVars, wsVars, procVars>>

StartServerDone ==
    /\ ~running
    /\ hostPc = "startServer"
    /\ hostPc' = "openBrowser"
    /\ UNCHANGED <<stdinVars, parserVars, trace, sessions, published, serverStarted,
                   server>>
    /\ UNCHANGED <<mmapVars, wsVars, procVars>>

OpenBrowserDone ==
    /\ ~running
    /\ hostPc = "openBrowser"
    /\ broadcast(<<[type |-> "log", level |-> "info"]>>)
    /\ hostPc' = "done"
    /\ UNCHANGED <<stdinVars, parserVars, trace, sessions, serverStarted, server>>
    /\ UNCHANGED <<mmapVars, wsConnVars, procVars>>

(***************************************************************************)
(* Specification: the process as index.js runs it                          *)
(***************************************************************************)

Next ==
    \/ Start
    \/ \E k \in 1..Len(input) : StdinData(k)
    \/ ParseNoNewline
    \/ ParseJsonError
    \/ ParseTypeError
    \/ ParseInitializeCached
    \/ ParseInitializeLoad
    \/ \E i \in DOMAIN pending : PackageInfoLoaded(i)
    \/ ParseInitialized
    \/ ParseHeartbeat
    \/ ParseSessionClosed
    \/ ParseUnknown
    \/ ParseSnapshotFile
    \/ ParseSnapshotMmap
    \/ \E i \in DOMAIN pending : ReadSucceeds(i)
    \/ \E i \in DOMAIN pending : ReadFails(i)
    \/ ParseSnapshotInlineNeedMore
    \/ ParseSnapshotInlineMismatch
    \/ ParseSnapshotInlineDeliver
    \/ CreateServerDone
    \/ StartServerDone
    \/ OpenBrowserDone

Spec == Init /\ [][Next]_vars

(***************************************************************************)
(* Life cycle specification: a host that also calls stop() and start()     *)
(* again.  After stop() stdin stays in flowing mode without a listener,    *)
(* and the chunks it emits meanwhile reach nobody.                         *)
(***************************************************************************)

\* isReady()
isReady == handshakeComplete

\* The host calls stop() at most MaxStops times.
MaxStops == 1

\* Mutant: stop() also resets the handshake.
StopMutResetsHandshake ==
    /\ ~running
    /\ started
    /\ stops < MaxStops
    /\ started' = FALSE
    /\ stops' = stops + 1
    /\ handshakeComplete' = FALSE
    /\ UNCHANGED <<input, fed, flowing, buffer, running, pending, packageInfo, consumed,
                   trace, hostVars>>
    /\ UNCHANGED <<mmapVars, wsVars, procVars>>

\* stop(): started = false, remove the listeners
Stop ==
    /\ ~running
    /\ started
    /\ stops < MaxStops
    /\ started' = FALSE
    /\ stops' = stops + 1
    /\ UNCHANGED <<input, fed, flowing, parserVars, trace, hostVars>>
    /\ UNCHANGED <<mmapVars, wsVars, procVars>>

\* a chunk emitted while no 'data' listener is attached
StdinDiscard(k) ==
    /\ ~running
    /\ ~started
    /\ flowing
    /\ k \in 1..Len(input)
    /\ input' = SubSeq(input, k + 1, Len(input))
    /\ UNCHANGED <<fed, started, flowing, stops, parserVars, trace, hostVars>>
    /\ UNCHANGED <<mmapVars, wsVars, procVars>>

NextLifecycle ==
    \/ Next
    \/ Stop
    \/ \E k \in 1..Len(input) : StdinDiscard(k)

\* One frame of each kind, each kind after `initialized`, and `initialize` twice
LifecycleStreams ==
    StreamsOf(Frames, 1)
    \cup {LineFrame(ObjText(73)) \o f : f \in Frames}
    \cup {LineFrame(ObjText(105)) \o LineFrame(ObjText(105))}

InitLifecycle ==
    /\ Init
    /\ input \in LifecycleStreams

SpecLifecycle == InitLifecycle /\ [][NextLifecycle]_vars

(***************************************************************************)
(* Reference decoding of a byte string by the wire format, used to state   *)
(* the properties                                                          *)
(***************************************************************************)

\* The stdout lines and callbacks a stream of valid inline snapshot frames
\* calls for: an ack and a delivery per complete frame, nothing for a frame
\* that is still incomplete.
RECURSIVE ExpectedInlineTrace(_)
ExpectedInlineTrace(bytes) ==
    LET nl == IndexOf(bytes, NL)
    IN IF nl = -1 THEN <<>>
       ELSE IF Len(bytes) < nl + 1 + 8 THEN <<>>
       ELSE LET n == ReadBigInt64LE(bytes, nl + 1)
                m == JSONParse(SubSeq(bytes, 1, nl)).value
            IN IF Len(bytes) < nl + 9 + n THEN <<>>
               ELSE << [ev |-> "ack", sequenceNumber |-> m.sequenceNumber,
                        status |-> "processed"],
                       [ev |-> "onSnapshot", metadata |-> m,
                        data |-> SubSeq(bytes, nl + 10, nl + 9 + n)] >>
                    \o ExpectedInlineTrace(SubSeq(bytes, nl + 10 + n, Len(bytes)))

InlineStreams == StreamsOf(ValidInlineSnapshots, MaxFrames)

\* The decoded metadata lines of the frames `bytes` is made of, in stream
\* order (an inline snapshot frame extends over its prefix and payload).
RECURSIVE ArrivedMessages(_)
ArrivedMessages(bytes) ==
    LET nl == IndexOf(bytes, NL)
    IN IF nl = -1 THEN <<>>
       ELSE LET p == JSONParse(SubSeq(bytes, 1, nl))
                isSnap == ~p.threw /\ ~p.isNull /\ Get(p.value, "type") = "snapshot"
                inline == isSnap /\ Get(p.value, "transportMode") \notin {"file", "mmap"}
                frameLen == IF inline
                              THEN nl + 9 + Max(ReadBigInt64LE(bytes, nl + 1), 0)
                              ELSE nl + 1
            IN <<p>> \o ArrivedMessages(SubSeq(bytes, frameLen + 1, Len(bytes)))

IsSnapshotMessage(p) == ~p.threw /\ ~p.isNull /\ Get(p.value, "type") = "snapshot"
IsInitializedMessage(p) == ~p.threw /\ ~p.isNull /\ Get(p.value, "type") = "initialized"

\* The sequence numbers of the snapshot messages received, in stream order
ArrivedSnapshots(bytes) ==
    LET snaps == SelectSeq(ArrivedMessages(bytes), IsSnapshotMessage)
    IN [i \in DOMAIN snaps |-> snaps[i].value.sequenceNumber]

RECURSIVE IsSubsequence(_, _)
IsSubsequence(a, b) ==
    IF a = <<>> THEN TRUE
    ELSE IF b = <<>> THEN FALSE
    ELSE IF Head(a) = Head(b) THEN IsSubsequence(Tail(a), Tail(b))
    ELSE IsSubsequence(a, Tail(b))

IsAck(e) == e.ev = "ack"
AckedSeqs == [i \in DOMAIN SelectSeq(trace, IsAck) |-> SelectSeq(trace, IsAck)[i].sequenceNumber]

Count(kind) == Cardinality({i \in DOMAIN trace : trace[i].ev = kind})

(***************************************************************************)
(* Properties                                                              *)
(***************************************************************************)

(***************************************************************************)
(* Metadata line specification: every kind of newline-terminated line,     *)
(* followed by one frame of each kind.                                     *)
(***************************************************************************)

\* What a line can decode to: an object of unknown type, an object without
\* `type`, null, a number, a string, or no JSON at all
MetaLines == {ObjText(122), ObjText(111), NullText, NumberText, StringText, BadJsonText}

LineStreams ==
    LifecycleStreams \cup {LineFrame(l) \o f : l \in MetaLines, f \in Frames}

InitLines ==
    /\ input \in LineStreams
    /\ fed = <<>>
    /\ consumed = <<>>
    /\ buffer = <<>>
    /\ started = FALSE
    /\ flowing = FALSE
    /\ handshakeComplete = FALSE
    /\ running = FALSE
    /\ pending = <<>>
    /\ packageInfo = FALSE
    /\ trace = <<>>
    /\ sessions = {}
    /\ published = <<>>
    /\ serverStarted = FALSE
    /\ server = "null"
    /\ hostPc = "idle"
    /\ stops = 0
    /\ InitMmap("linux")
    /\ InitWs
    /\ exitState = "running"
    /\ transport = defaultTransport
    /\ otherParser = NewParser
    /\ cachedTable = NoTable
    /\ viewer = NewViewer

SpecLines == InitLines /\ [][Next]_vars

\* C1: for a stream of valid inline snapshot frames, whenever no processData
\* call is active the stdout lines and callbacks so far are exactly one ack and
\* one onSnapshot (same sequenceNumber, metadata and payload) per frame
\* completely fed, whatever the chunks were; the single call is one chunking.
C1_ChunkingEquivalence ==
    (~running /\ (fed \o input) \in InlineStreams) => trace = ExpectedInlineTrace(fed)

\* C1 witness: one frame has been delivered and a later one is split: part
\* of it is buffered and the rest is still to come.
C1_Witness ==
    /\ ~running
    /\ (fed \o input) \in InlineStreams
    /\ Len(trace) = 2
    /\ buffer # <<>>
    /\ input # <<>>

\* C2 (as claimed): the frames consumed so far followed by the buffer are the
\* bytes fed, in order.
C2_ByteConservation == fed = consumed \o buffer

\* The head of the buffer is the metadata line of an inline snapshot.
InlineSnapshotAtHead ==
    /\ newlineIndex # -1
    /\ ~parsed.threw
    /\ ~parsed.isNull
    /\ msgType = "snapshot"
    /\ Get(metadata, "transportMode") \notin {"file", "mmap"}

\* Number of bytes buffered after the metadata line
BytesAfterLine == Len(buffer) - (newlineIndex + 1)

\* Fewer than 8 + declared-length bytes follow the metadata line.
InlineIncomplete ==
    IF BytesAfterLine < 8 THEN TRUE
    ELSE BytesAfterLine < 8 + ReadBigInt64LE(buffer, newlineIndex + 1)

\* The inline frame at the head is complete and properly formed: the prefix
\* declares a length >= 0 and that many payload bytes are buffered.
InlineComplete ==
    IF BytesAfterLine < 8 THEN FALSE
    ELSE /\ ReadBigInt64LE(buffer, newlineIndex + 1) >= 0
         /\ BytesAfterLine >= 8 + ReadBigInt64LE(buffer, newlineIndex + 1)

WirePayload ==
    SubSeq(buffer, newlineIndex + 10,
           newlineIndex + 9 + ReadBigInt64LE(buffer, newlineIndex + 1))

\* C3: a parseMessage call that finds an incomplete inline snapshot at the
\* head changes neither the buffer nor stdout, the callbacks, the registry or
\* the broadcasts, and ends the processData call; the frame stays at the head.
C3_IncompleteInlineNoEffect ==
    [][(running /\ InlineSnapshotAtHead /\ InlineIncomplete)
         => (/\ buffer' = buffer
             /\ trace' = trace
             /\ sessions' = sessions
             /\ published' = published
             /\ pending' = pending
             /\ ~running')]_vars

\* C3 witness: a call has ended with the metadata line and part of the length
\* prefix or payload of an inline snapshot left at the head of the buffer.
C3_Witness ==
    /\ ~running
    /\ InlineSnapshotAtHead
    /\ InlineIncomplete
    /\ BytesAfterLine > 0
    /\ trace = <<>>

\* C4: a parseMessage call that finds a complete inline snapshot whose checksum
\* differs from the CRC-32 of its payload writes nothing to stdout, does not
\* call onSnapshot, leaves the registry alone, calls onError once and removes
\* the metadata line, the prefix and the payload from the buffer.
C4_ChecksumMismatchDropsFrame ==
    [][(/\ running
        /\ InlineSnapshotAtHead
        /\ InlineComplete
        /\ "checksum" \in DOMAIN metadata
        /\ metadata.checksum # calculateCRC32(WirePayload))
         => (/\ trace' = Append(trace, [ev |-> "onError", cause |-> "checksum"])
             /\ sessions' = sessions
             /\ buffer' = SubSeq(buffer, newlineIndex + 10 + Len(WirePayload), Len(buffer)))]_vars

\* C4 witness: the checksum error has been reported, nothing was acknowledged
\* or stored, and the bytes after the bad frame are what is left in the buffer.
C4_Witness ==
    /\ Len(trace) = 1
    /\ trace[1] = [ev |-> "onError", cause |-> "checksum"]
    /\ sessions = {}
    /\ running
    /\ buffer # <<>>
    /\ fed = consumed \o buffer

\* C5 (as claimed): the acks written so far are in the order in which their
\* snapshot messages arrived in the stream.
C5_AcksInArrivalOrder == IsSubsequence(AckedSeqs, ArrivedSnapshots(consumed))

\* C6 (as claimed): while a call is suspended on I/O, stdout, the callbacks
\* and the registry change only by the completion of a suspended call.
C6_NoFrameOvertakesSuspendedFrame ==
    [][(pending # <<>> /\ (trace' # trace \/ sessions' # sessions))
         => Len(pending') < Len(pending)]_vars

SessionIds == {"a", "b"}

\* Index in the trace of the last callback that concerns the record of sid
\* (a delivery or a close), 0 if there is none
LastRegistryEvent(sid) ==
    LET idx == {i \in DOMAIN trace :
                  \/ trace[i].ev = "onSnapshot" /\ trace[i].metadata.sessionId = sid
                  \/ trace[i].ev = "onSessionClosed" /\ trace[i].sessionId = sid}
    IN IF idx = {} THEN 0 ELSE CHOOSE i \in idx : \A j \in idx : j <= i

IsOutcome(e) ==
    \/ e.ev = "onSnapshot"
    \/ e.ev = "onError" /\ e.cause \in {"checksum", "file", "mmap"}

IsPendingRead(t) == t.op \in {"file", "mmap"}

\* C7: the registry holds at most one record per sessionId; a record exists
\* exactly when the last delivery or close for its id was a delivery, and it
\* holds that delivery's payload and sequenceNumber; every delivery was
\* validated (acked, checksum equal when given), and every snapshot received
\* has exactly one outcome, a delivery or an error, or is still being read.
C7_RegistryHoldsLastValidated ==
    /\ \A e \in sessions : e.sessionId \in SessionIds
    /\ \A sid \in SessionIds :
         LET recs == {e \in sessions : e.sessionId = sid}
             last == LastRegistryEvent(sid)
         IN /\ Cardinality(recs) <= 1
            /\ (recs # {}) <=> (IF last = 0 THEN FALSE ELSE trace[last].ev = "onSnapshot")
            /\ \A e \in recs :
                 /\ e.data = trace[last].data
                 /\ e.sequenceNumber = trace[last].metadata.sequenceNumber
    /\ \A i \in DOMAIN trace :
         trace[i].ev = "onSnapshot" =>
           /\ i > 1
           /\ trace[i - 1] = [ev |-> "ack",
                              sequenceNumber |-> trace[i].metadata.sequenceNumber,
                              status |-> "processed"]
           /\ ("checksum" \in DOMAIN trace[i].metadata =>
                 trace[i].metadata.checksum = calculateCRC32(trace[i].data))
    /\ Len(SelectSeq(trace, IsOutcome)) + Len(SelectSeq(pending, IsPendingRead))
         = Len(ArrivedSnapshots(consumed))

\* C7 witness: a second validated snapshot for session a has replaced the
\* first one in the registry.
C7_Witness ==
    /\ Count("onSnapshot") = 2
    /\ \E e \in sessions : e.sessionId = "a" /\ e.sequenceNumber = 4 /\ e.data = FileData
    /\ \E i \in DOMAIN trace :
         /\ trace[i].ev = "onSnapshot"
         /\ trace[i].metadata.sessionId = "a"
         /\ trace[i].metadata.sequenceNumber = 1

\* C8 (as claimed): onInitialized has been invoked at most once.
C8_OnInitializedAtMostOnce == Count("onInitialized") <= 1

\* C9: isReady() is true exactly when an `initialized` message has been
\* processed, and no step makes it false again.
C9_HandshakeMonotonic ==
    /\ [](isReady <=> \E i \in DOMAIN ArrivedMessages(consumed) :
                         IsInitializedMessage(ArrivedMessages(consumed)[i]))
    /\ [][isReady => isReady']_vars

\* C9 witness: the handshake completed, then the parser was stopped, started
\* again and has processed further input.
C9_Witness ==
    /\ isReady
    /\ stops > 0
    /\ started
    /\ trace[Len(trace)].ev # "onInitialized"
    /\ Len(ArrivedMessages(consumed)) >= 2

\* C10: a parseMessage call that finds an undecodable line at the head calls
\* onError once, writes nothing to stdout, removes the line and its newline
\* and nothing else, and the loop of the same processData call goes on.
C10_BadJsonLineDropped ==
    [][(running /\ newlineIndex # -1 /\ JSONParse(SubSeq(buffer, 1, newlineIndex)).threw)
         => (/\ trace' = Append(trace, [ev |-> "onError", cause |-> "json"])
             /\ buffer' = SubSeq(buffer, newlineIndex + 2, Len(buffer))
             /\ running')]_vars

\* C10 witness: the error for the undecodable line has been reported and the
\* same call is about to parse the frame that followed it.
C10_Witness ==
    /\ running
    /\ trace = <<[ev |-> "onError", cause |-> "json"]>>
    /\ buffer # <<>>
    /\ newlineIndex # -1
    /\ consumed = <<123, 63, NL>>

\* A complete line is at the head of the buffer and it is not the line of an
\* inline snapshot whose prefix or payload is still incomplete.
CompleteLineAtHead ==
    /\ newlineIndex # -1
    /\ ~(InlineSnapshotAtHead /\ InlineIncomplete)

\* Every byte of the stream has been delivered and every processData call
\* has returned.
Quiescent == ~running /\ input = <<>> /\ pending = <<>>

\* C11 (as claimed): a complete line at the head of the buffer (other than
\* that of an incomplete inline snapshot) is removed by the parser whatever it
\* decodes to: once the whole stream has been delivered and every call has
\* returned, no such line is left at the head.
C11_NoLineWedgesStream == Quiescent => ~CompleteLineAtHead

\* Number of errors reported through onError so far
ErrorsReported == Count("onError")

\* The line at the head decodes to a value whose type is none of the message
\* types of the protocol.
UnknownTypeAtHead ==
    /\ newlineIndex # -1
    /\ ~parsed.threw
    /\ ~parsed.isNull
    /\ msgType \notin KnownTypes

\* The line at the head is not decodable as JSON.
BadJsonAtHead == newlineIndex # -1 /\ parsed.threw

\* A complete inline snapshot is at the head and its checksum is wrong.
BadChecksumAtHead ==
    /\ InlineSnapshotAtHead
    /\ InlineComplete
    /\ "checksum" \in DOMAIN metadata
    /\ metadata.checksum # calculateCRC32(WirePayload)

\* The step ends a file or shared-memory read without a delivery.
ReadFailedStep ==
    /\ Len(SelectSeq(pending', IsPendingRead)) < Len(SelectSeq(pending, IsPendingRead))
    /\ Count("onSnapshot")' = Count("onSnapshot")

\* Malformed JSON, checksum mismatch and transport failure are each reported
\* once through onError and the loop of the call goes on.
ReportedErrorsContinue ==
    [][((running /\ (BadJsonAtHead \/ BadChecksumAtHead)) \/ ReadFailedStep)
         => (ErrorsReported' = ErrorsReported + 1 /\ running')]_vars

\* C12 (as claimed): each parser-level error (malformed JSON, checksum
\* mismatch, transport failure, unrecognized message type) is reported once
\* through onError, and the loop of the call goes on to the following frames.
C12_EveryErrorReportedAndContinues ==
    [][((running /\ (BadJsonAtHead \/ BadChecksumAtHead \/ UnknownTypeAtHead))
          \/ ReadFailedStep)
         => (ErrorsReported' = ErrorsReported + 1 /\ running')]_vars

\* The line at the head is a snapshot in the given transport mode.
SnapshotAtHeadIn(mode) ==
    /\ newlineIndex # -1
    /\ ~parsed.threw
    /\ ~parsed.isNull
    /\ msgType = "snapshot"
    /\ Get(metadata, "transportMode") = mode

\* A step that starts the handling of a snapshot in the given transport mode
\* consumes the line and nothing else, writes and delivers nothing, and
\* leaves the call suspended on the read.
ReadStarts(mode) ==
    (running /\ SnapshotAtHeadIn(mode))
      => /\ buffer' = SubSeq(buffer, newlineIndex + 2, Len(buffer))
         /\ trace' = trace
         /\ sessions' = sessions
         /\ pending' = Append(pending, [op |-> mode, metadata |-> metadata])

\* A step that ends the read of a snapshot in the given transport mode either
\* writes the ack for its sequenceNumber and then delivers (metadata, data),
\* or calls onError and does nothing else; the buffer is not touched.
ReadEnds(mode) ==
    \A i \in DOMAIN pending :
        (pending[i].op = mode /\ pending' = Remove(pending, i))
          => /\ buffer' = buffer
             /\ consumed' = consumed
             /\ \/ /\ trace' = trace \o
                        << [ev |-> "ack",
                            sequenceNumber |-> pending[i].metadata.sequenceNumber,
                            status |-> "processed"],
                           [ev |-> "onSnapshot", metadata |-> pending[i].metadata,
                            data |-> FileData] >>
                   /\ \E e \in sessions' :
                        /\ e.sessionId = pending[i].metadata.sessionId
                        /\ e.data = FileData
                \/ /\ trace' = Append(trace, [ev |-> "onError", cause |-> mode])
                   /\ sessions' = sessions

\* C13: a file-mode snapshot has its line consumed before the read starts; a
\* successful read writes one ack with the sequenceNumber and then delivers
\* (metadata, file contents); a failed read calls onError, writes no ack,
\* delivers nothing, and the line stays consumed.
C13_FileModeAckOrError == [][ReadStarts("file") /\ ReadEnds("file")]_vars

\* C13 witness: the read of a file-mode snapshot has failed: the error is
\* reported, nothing was acknowledged or stored, and the line is consumed.
C13_Witness ==
    /\ trace = <<[ev |-> "onError", cause |-> "file"]>>
    /\ pending = <<>>
    /\ sessions = {}
    /\ consumed = LineFrame(ObjText(102))
    /\ fed = consumed \o buffer

(***************************************************************************)
(* Shared-memory transport (mmap.js): readFromMmap on every platform.      *)
(* On win32 the first call loads the foreign-call bridge (koffi) with a    *)
(* dynamic import, which is real I/O; windowsInitialized is set before the *)
(* import is awaited and kernel32 is bound after it.                       *)
(***************************************************************************)

Platforms == {"win32", "linux", "darwin", "freebsd"}

\* What readFromWindowsMmap copies out of the mapped view (dataSize bytes)
RegionData == <<82>>

\* parseSnapshot has a snapshot in mmap mode at the head
MmapHead == HeadIs("snapshot") /\ transportMode = "mmap"

\* readFromMmap rejects before any read is attempted: the parser has dropped
\* the line and its catch calls onError, all within the same call
MmapRejects(error) ==
    /\ buffer' = DropLine(buffer, newlineIndex)
    /\ consumed' = consumed \o WireLine
    /\ trace' = Append(trace, [ev |-> "onError", cause |-> "mmap", error |-> error])
    /\ HostOnError
    /\ UNCHANGED <<stdinVars, handshakeComplete, running, pending, packageInfo, wsConnVars, procVars>>

\* How one run of readFromWindowsMmap can go: OpenFileMappingW returns null,
\* MapViewOfFile returns null, Buffer.alloc or koffi.decode throws, or the
\* view is copied
WindowsOutcomes == {"open fails", "map fails", "copy throws", "copied"}

\* a call through kernel32 on a handle or view
KernelCall(fn, handle) == [fn |-> fn, handle |-> handle]

\* the handle OpenFileMappingW (the view MapViewOfFile) returns on success:
\* a fresh non-null value, here the number of the run; null is 0
NextHandle(calls) ==
    Cardinality({i \in DOMAIN calls : calls[i].fn = "OpenFileMappingW"}) + 1

\* Mutant: CloseHandle and UnmapViewOfFile follow the copy instead of
\* standing in `finally` blocks.
readFromWindowsMmapMutNoFinally(h, outcome) ==
    IF outcome = "open fails"
      THEN <<KernelCall("OpenFileMappingW", 0), KernelCall("GetLastError", 0)>>
    ELSE IF outcome = "map fails"
      THEN <<KernelCall("OpenFileMappingW", h), KernelCall("MapViewOfFile", 0),
             KernelCall("GetLastError", 0)>>
    ELSE IF outcome = "copy throws"
      THEN <<KernelCall("OpenFileMappingW", h), KernelCall("MapViewOfFile", h)>>
    ELSE <<KernelCall("OpenFileMappingW", h), KernelCall("MapViewOfFile", h),
           KernelCall("UnmapViewOfFile", h), KernelCall("CloseHandle", h)>>

\* readFromWindowsMmap: the calls it makes through kernel32, in order
readFromWindowsMmap(h, outcome) ==
    LET hMapFile == IF outcome = "open fails" THEN 0 ELSE h
        pBuf == IF outcome \in {"open fails", "map fails"} THEN 0 ELSE h
        open == <<KernelCall("OpenFileMappingW", hMapFile)>>
        map  == <<KernelCall("MapViewOfFile", pBuf)>>
        \* the inner try: the copy, then `finally` UnmapViewOfFile(pBuf)
        inner == <<KernelCall("UnmapViewOfFile", pBuf)>>
        \* the outer try: MapViewOfFile, the inner try unless pBuf is null,
        \* then `finally` CloseHandle(hMapFile)
        outer == (IF pBuf = 0 THEN map \o <<KernelCall("GetLastError", 0)>>
                  ELSE map \o inner)
                 \o <<KernelCall("CloseHandle", hMapFile)>>
    IN  IF hMapFile = 0 THEN open \o <<KernelCall("GetLastError", 0)>>
        ELSE open \o outer

\* readFromWindowsMmap returns the copied view, or throws and the catch of
\* parseSnapshot calls onError
WindowsRead(m, outcome) ==
    /\ kernelCalls' = kernelCalls \o readFromWindowsMmap(NextHandle(kernelCalls), outcome)
    /\ IF outcome = "copied"
         THEN /\ trace' = trace \o
                   << sendAck(Get(m, "sequenceNumber")),
                      [ev |-> "onSnapshot", metadata |-> m, data |-> RegionData] >>
              /\ HostOnSnapshot(m, RegionData)
         ELSE /\ trace' = Append(trace, [ev |-> "onError", cause |-> "mmap",
                                         error |-> "file mapping"])
              /\ HostOnError

\* default: the platform has no shared-memory implementation
ParseSnapshotMmapUnsupported ==
    /\ MmapHead
    /\ currentPlatform \notin {"win32", "linux", "darwin"}
    /\ MmapRejects("platform not supported")
    /\ UNCHANGED mmapVars

\* darwin without filePath in the metadata
ParseSnapshotMmapDarwinNoPath ==
    /\ MmapHead
    /\ currentPlatform = "darwin"
    /\ "filePath" \notin DOMAIN metadata
    /\ MmapRejects("filePath required")
    /\ UNCHANGED mmapVars

\* darwin with filePath: drop the line, then await the read of the backing file
ParseSnapshotMmapDarwin ==
    /\ MmapHead
    /\ currentPlatform = "darwin"
    /\ "filePath" \in DOMAIN metadata
    /\ buffer' = DropLine(buffer, newlineIndex)
    /\ consumed' = consumed \o WireLine
    /\ pending' = Append(pending, [op |-> "mmap", metadata |-> metadata])
    /\ running' = FALSE
    /\ UNCHANGED <<stdinVars, handshakeComplete, packageInfo, trace, hostVars>>
    /\ UNCHANGED <<mmapVars, wsVars, procVars>>

\* win32, first use: initializeWindowsAsync sets windowsInitialized and awaits
\* the import of koffi
ParseSnapshotMmapWinInit ==
    /\ MmapHead
    /\ currentPlatform = "win32"
    /\ ~windowsInitialized
    /\ windowsInitialized' = TRUE
    /\ buffer' = DropLine(buffer, newlineIndex)
    /\ consumed' = consumed \o WireLine
    /\ pending' = Append(pending, [op |-> "koffi", metadata |-> metadata])
    /\ running' = FALSE
    /\ UNCHANGED <<stdinVars, handshakeComplete, packageInfo, trace, hostVars>>
    /\ UNCHANGED <<currentPlatform, windowsInitError, kernel32, kernelCalls, wsVars, procVars>>

\* the import resolves and kernel32.dll is bound: the suspended call goes on
\* with readFromWindowsMmap
KoffiLoads(i) ==
    /\ ~running
    /\ i \in DOMAIN pending
    /\ pending[i].op = "koffi"
    /\ kernel32' = TRUE
    /\ \E outcome \in WindowsOutcomes : WindowsRead(pending[i].metadata, outcome)
    /\ pending' = Remove(pending, i)
    /\ running' = TRUE
    /\ UNCHANGED <<stdinVars, buffer, consumed, handshakeComplete, packageInfo>>
    /\ UNCHANGED <<currentPlatform, windowsInitialized, windowsInitError, wsConnVars, procVars>>

\* the import or koffi.load fails: windowsInitError is kept and readFromMmap
\* throws "Windows shared memory support not available"
KoffiFails(i) ==
    /\ ~running
    /\ i \in DOMAIN pending
    /\ pending[i].op = "koffi"
    /\ windowsInitError' = TRUE
    /\ trace' = Append(trace, [ev |-> "onError", cause |-> "mmap",
                               error |-> "koffi not available"])
    /\ HostOnError
    /\ pending' = Remove(pending, i)
    /\ running' = TRUE
    /\ UNCHANGED <<stdinVars, buffer, consumed, handshakeComplete, packageInfo>>
    /\ UNCHANGED <<currentPlatform, windowsInitialized, kernel32, kernelCalls, wsConnVars,
                   procVars>>

\* win32, bridge loaded: readFromWindowsMmap runs at once
ParseSnapshotMmapWinReady ==
    /\ MmapHead
    /\ currentPlatform = "win32"
    /\ windowsInitialized /\ ~windowsInitError /\ kernel32
    /\ buffer' = DropLine(buffer, newlineIndex)
    /\ consumed' = consumed \o WireLine
    /\ \E outcome \in WindowsOutcomes : WindowsRead(metadata, outcome)
    /\ UNCHANGED <<stdinVars, handshakeComplete, running, pending, packageInfo>>
    /\ UNCHANGED <<currentPlatform, windowsInitialized, windowsInitError, kernel32,
                   wsConnVars, procVars>>

\* win32, an earlier load has failed: initializeWindowsAsync returns false
ParseSnapshotMmapWinUnavailable ==
    /\ MmapHead
    /\ currentPlatform = "win32"
    /\ windowsInitialized /\ windowsInitError
    /\ MmapRejects("koffi not available")
    /\ UNCHANGED mmapVars

\* win32, the load is still in progress: initializeWindowsAsync returns
\* !windowsInitError = true, and readFromWindowsMmap dereferences kernel32,
\* which is still null: a TypeError
ParseSnapshotMmapWinLoading ==
    /\ MmapHead
    /\ currentPlatform = "win32"
    /\ windowsInitialized /\ ~windowsInitError /\ ~kernel32
    /\ MmapRejects("TypeError")
    /\ UNCHANGED mmapVars

MmapFrames == {LineFrame(ObjText(109)), LineFrame(ObjText(77))}

MmapStreams ==
    LifecycleStreams \cup {f \o g : f \in MmapFrames, g \in MmapFrames}

InitMmapSpec ==
    /\ input \in MmapStreams
    /\ fed = <<>>
    /\ consumed = <<>>
    /\ buffer = <<>>
    /\ started = FALSE
    /\ flowing = FALSE
    /\ handshakeComplete = FALSE
    /\ running = FALSE
    /\ pending = <<>>
    /\ packageInfo = FALSE
    /\ trace = <<>>
    /\ sessions = {}
    /\ published = <<>>
    /\ serverStarted = FALSE
    /\ server = "null"
    /\ hostPc = "idle"
    /\ stops = 0
    /\ \E platform \in Platforms : InitMmap(platform)
    /\ InitWs
    /\ exitState = "running"
    /\ transport = defaultTransport
    /\ otherParser = NewParser
    /\ cachedTable = NoTable
    /\ viewer = NewViewer

NextMmap ==
    \/ Next
    \/ ParseSnapshotMmapUnsupported
    \/ ParseSnapshotMmapDarwinNoPath
    \/ ParseSnapshotMmapDarwin
    \/ ParseSnapshotMmapWinInit
    \/ \E i \in DOMAIN pending : KoffiLoads(i)
    \/ \E i \in DOMAIN pending : KoffiFails(i)
    \/ ParseSnapshotMmapWinReady
    \/ ParseSnapshotMmapWinUnavailable
    \/ ParseSnapshotMmapWinLoading

SpecMmap == InitMmapSpec /\ [][NextMmap]_vars

\* The errors by which readFromMmap says that the transport is unavailable
ExplicitMmapErrors == {"platform not supported", "filePath required", "koffi not available"}

IsExplicitMmapError(e) ==
    /\ e.ev = "onError"
    /\ e.cause = "mmap"
    /\ Get(e, "error") \in ExplicitMmapErrors

\* The trace entry is an outcome of a snapshot in mmap mode.
IsMmapOutcome(e) ==
    \/ e.ev = "onError" /\ e.cause = "mmap"
    \/ e.ev = "onSnapshot" /\ Get(e.metadata, "transportMode") = "mmap"

\* The shared-memory read of the snapshot at the head cannot be performed.
MmapUnavailableAtHead ==
    /\ SnapshotAtHeadIn("mmap")
    /\ \/ currentPlatform \notin {"win32", "linux", "darwin"}
       \/ currentPlatform = "darwin" /\ "filePath" \notin DOMAIN metadata
       \/ currentPlatform = "win32" /\ windowsInitError

\* A step that handles a snapshot whose shared-memory read cannot be
\* performed, and the step in which the bridge fails to load, report one
\* explicit error, write no ack, deliver nothing and start no read.
MmapFailsClosed ==
    [][((running /\ MmapUnavailableAtHead) \/ (windowsInitError' /\ ~windowsInitError))
         => (/\ Len(trace') = Len(trace) + 1
             /\ IsExplicitMmapError(trace'[Len(trace')])
             /\ sessions' = sessions
             /\ Len(pending') <= Len(pending))]_vars

\* On win32 with a bridge that failed to load, every mmap snapshot handled so
\* far was reported through onError and none was acknowledged or delivered.
MmapBridgeFailureReported ==
    (currentPlatform = "win32" /\ windowsInitError)
      => /\ \A i \in DOMAIN trace : IsMmapOutcome(trace[i]) => trace[i].ev = "onError"
         /\ Count("ack") = 0
         /\ sessions = {}

\* C14 (as claimed): whenever the shared-memory read cannot be performed
\* (unsupported platform, bridge failing to load on win32, darwin without
\* filePath) the snapshot is reported through onError with an explicit error,
\* no ack is written, nothing is delivered and no other transport is tried.
C14_MmapUnavailableFailsExplicitly ==
    /\ []((currentPlatform = "win32" /\ windowsInitError)
            => \A i \in DOMAIN trace :
                 IsMmapOutcome(trace[i]) => IsExplicitMmapError(trace[i]))
    /\ MmapFailsClosed

\* The ack line written for a snapshot message
AckFor(m) == [ev |-> "ack", sequenceNumber |-> Get(m, "sequenceNumber"),
              status |-> "processed"]

\* In the trace every ack is directly followed by the delivery of the snapshot
\* it acknowledges and every delivery is directly preceded by its ack.
AckIffDelivered ==
    \A i \in DOMAIN trace :
        /\ trace[i].ev = "ack"
             => /\ trace[i].status = "processed"
                /\ i < Len(trace)
                /\ trace[i + 1].ev = "onSnapshot"
                /\ trace[i] = AckFor(trace[i + 1].metadata)
        /\ trace[i].ev = "onSnapshot"
             => /\ i > 1
                /\ trace[i - 1] = AckFor(trace[i].metadata)

\* A step that delivers a snapshot leaves the delivered payload as the data
\* of the record of its sessionId.
DeliveredIsStored ==
    Count("onSnapshot")' > Count("onSnapshot")
      => LET d == trace'[Len(trace')]
         IN /\ d.ev = "onSnapshot"
            /\ \E e \in sessions' : e.sessionId = d.metadata.sessionId
            /\ \A e \in sessions' : e.sessionId = d.metadata.sessionId => e.data = d.data

\* C15: for every snapshot, in any transport mode, the ack (status processed,
\* the message's sequenceNumber) is written exactly when the snapshot is
\* delivered to onSnapshot, the ack comes first, and after the delivery the
\* registry returns the delivered payload for the sessionId.
C15_AckIffDeliveredThenStored == []AckIffDelivered /\ [][DeliveredIsStored]_vars

\* C15 witness: an inline snapshot and a shared-memory snapshot have been
\* acknowledged and delivered, and the registry returns their payloads.
C15_Witness ==
    /\ Count("ack") = 2
    /\ Count("onSnapshot") = 2
    /\ \E e \in sessions : e.sessionId = "a" /\ e.data = PayloadA
    /\ \E e \in sessions : e.sessionId = "b" /\ e.data = FileData

(***************************************************************************)
(* Session store specification: the methods of SessionStore (store.js)     *)
(* called in any order on inputs drawn from small sets.  Here `trace` is   *)
(* the log of the calls made.                                              *)
(***************************************************************************)

\* Mutant: hasUpdate is cleared on every record, whatever the sessionId.
markAsViewedMutMarksAll(map, sessionId) ==
    {[e EXCEPT !.hasUpdate = FALSE] : e \in map}

\* markAsViewed: clear hasUpdate of the record of sessionId, if there is one
markAsViewed(map, sessionId) ==
    {IF e.sessionId = sessionId THEN [e EXCEPT !.hasUpdate = FALSE] ELSE e : e \in map}

\* The fields updateSnapshot copies from the metadata
MetadataFields == {"documentType", "originalPath", "outputFormat", "mimeType",
                   "timestamp", "sequenceNumber"}

\* Metadata objects passed to updateSnapshot: one that sets several fields
\* and one that leaves all but the sequenceNumber undefined
StoreMetadata ==
    { [documentType |-> "pdf", outputFormat |-> "png", mimeType |-> "image/png",
       sequenceNumber |-> 1],
      [sequenceNumber |-> 2] }

StoreData == {PayloadA, PayloadB}

\* The store is called at most MaxCalls times.
MaxCalls == 3

nonStoreVars == <<input, fed, consumed, buffer, started, flowing, handshakeComplete,
                  running, pending, packageInfo, published, serverStarted, server,
                  hostPc, stops, mmapVars, wsVars, procVars>>

StoreUpdateSnapshot(sessionId, m, data) ==
    /\ Len(trace) < MaxCalls
    /\ sessions' = updateSnapshot(sessions, sessionId, m, data)
    /\ trace' = Append(trace, [ev |-> "updateSnapshot", sessionId |-> sessionId,
                               metadata |-> m, data |-> data])
    /\ UNCHANGED nonStoreVars

StoreRemoveSession(sessionId) ==
    /\ Len(trace) < MaxCalls
    /\ sessions' = removeSession(sessions, sessionId)
    /\ trace' = Append(trace, [ev |-> "removeSession", sessionId |-> sessionId])
    /\ UNCHANGED nonStoreVars

StoreMarkAsViewed(sessionId) ==
    /\ Len(trace) < MaxCalls
    /\ sessions' = markAsViewed(sessions, sessionId)
    /\ trace' = Append(trace, [ev |-> "markAsViewed", sessionId |-> sessionId])
    /\ UNCHANGED nonStoreVars

InitStore ==
    /\ Init
    /\ input = <<>>

NextStore ==
    \/ \E sid \in SessionIds, m \in StoreMetadata, d \in StoreData :
         StoreUpdateSnapshot(sid, m, d)
    \/ \E sid \in SessionIds : StoreRemoveSession(sid)
    \/ \E sid \in SessionIds : StoreMarkAsViewed(sid)

SpecStore == InitStore /\ [][NextStore]_vars

\* The records the store holds for a sessionId
RecordsOf(sid) == {e \in sessions : e.sessionId = sid}

\* C16: when the last call was an updateSnapshot for a sessionId that an
\* earlier updateSnapshot had already stored, the store holds exactly one
\* record for the id, and its payload and every metadata field are those of
\* the last call, a field the last metadata leaves out being undefined.
C16_UpdateSnapshotReplaces ==
    \A n \in 2..Len(trace) :
        (/\ n = Len(trace)
         /\ trace[n].ev = "updateSnapshot"
         /\ trace[n - 1].ev = "updateSnapshot"
         /\ trace[n - 1].sessionId = trace[n].sessionId)
          => /\ Cardinality(RecordsOf(trace[n].sessionId)) = 1
             /\ \A e \in RecordsOf(trace[n].sessionId) :
                  /\ e.data = trace[n].data
                  /\ e.hasUpdate
                  /\ \A f \in MetadataFields : e[f] = Get(trace[n].metadata, f)

\* C16 witness: a record with a documentType was replaced by a snapshot whose
\* metadata has none, and the record's documentType is now undefined.
C16_Witness ==
    /\ Len(trace) = 2
    /\ trace[1].ev = "updateSnapshot" /\ trace[2].ev = "updateSnapshot"
    /\ trace[1].sessionId = "a" /\ trace[2].sessionId = "a"
    /\ Get(trace[1].metadata, "documentType") = "pdf"
    /\ trace[1].data # trace[2].data
    /\ \E e \in sessions : e.sessionId = "a" /\ e.documentType = Undefined

\* The step is a call of removeSession or markAsViewed for a sessionId that
\* has no record.
CallOnMissingSession ==
    /\ Len(trace') = Len(trace) + 1
    /\ trace'[Len(trace')].ev \in {"removeSession", "markAsViewed"}
    /\ ~MapHas(sessions, trace'[Len(trace')].sessionId)

\* C17: removeSession and markAsViewed for a sessionId without a record
\* return normally and leave every record of the store, and its size, as
\* they were.
C17_MissingSessionNoOp ==
    [][CallOnMissingSession
         => (sessions' = sessions /\ Cardinality(sessions') = Cardinality(sessions))]_vars

\* C17 witness: session a has an unviewed record; removeSession and
\* markAsViewed were then called for session b, which has none.
C17_Witness ==
    /\ Len(trace) = 3
    /\ trace[1].ev = "updateSnapshot" /\ trace[1].sessionId = "a"
    /\ trace[2] = [ev |-> "removeSession", sessionId |-> "b"]
    /\ trace[3] = [ev |-> "markAsViewed", sessionId |-> "b"]
    /\ \E e \in sessions : e.sessionId = "a" /\ e.hasUpdate
    /\ Cardinality(sessions) = 1

(***************************************************************************)
(* Session life-cycle specification: snapshots of two sessions followed by *)
(* session_closed or session_unbound and by further snapshots.             *)
(***************************************************************************)

\* case 'session_unbound'
ParseSessionUnbound ==
    /\ HeadIs("session_unbound")
    /\ buffer' = DropLine(buffer, newlineIndex)
    /\ consumed' = consumed \o WireLine
    /\ trace' = Append(trace, [ev |-> "onSessionUnbound",
                               sessionId |-> Get(metadata, "sessionId")])
    /\ HostOnSessionUnbound(Get(metadata, "sessionId"))
    /\ UNCHANGED <<stdinVars, handshakeComplete, running, pending, packageInfo>>
    /\ UNCHANGED <<mmapVars, wsConnVars, procVars>>

\* Snapshots of session a (inline, file) and of session b (inline)
SessionSnapshots == ValidInlineSnapshots \cup {LineFrame(ObjText(102))}

SessionEnds == {LineFrame(ObjText(99)), LineFrame(ObjText(117))}

SessionStreams ==
    LifecycleStreams
    \cup {s \o e : s \in SessionSnapshots, e \in SessionEnds}
    \cup {s \o t \o e : s \in SessionSnapshots, t \in SessionSnapshots, e \in SessionEnds}
    \cup {s \o e \o t : s \in SessionSnapshots, e \in SessionEnds, t \in SessionSnapshots}

InitSessions ==
    /\ input \in SessionStreams
    /\ fed = <<>>
    /\ consumed = <<>>
    /\ buffer = <<>>
    /\ started = FALSE
    /\ flowing = FALSE
    /\ handshakeComplete = FALSE
    /\ running = FALSE
    /\ pending = <<>>
    /\ packageInfo = FALSE
    /\ trace = <<>>
    /\ sessions = {}
    /\ published = <<>>
    /\ serverStarted = FALSE
    /\ server = "null"
    /\ hostPc = "idle"
    /\ stops = 0
    /\ InitMmap("linux")
    /\ InitWs
    /\ exitState = "running"
    /\ transport = defaultTransport
    /\ otherParser = NewParser
    /\ cachedTable = NoTable
    /\ viewer = NewViewer

NextSessions ==
    \/ Next
    \/ ParseSessionUnbound

SpecSessions == InitSessions /\ [][NextSessions]_vars

\* The line at the head is a session_closed or session_unbound message.
SessionEndAtHead ==
    /\ newlineIndex # -1
    /\ ~parsed.threw
    /\ ~parsed.isNull
    /\ msgType \in {"session_closed", "session_unbound"}

\* Index in the trace of the last delivery, close or unbind for sid, 0 if none
LastSessionEvent(sid) ==
    LET idx == {i \in DOMAIN trace :
                  \/ trace[i].ev = "onSnapshot" /\ trace[i].metadata.sessionId = sid
                  \/ /\ trace[i].ev \in {"onSessionClosed", "onSessionUnbound"}
                     /\ trace[i].sessionId = sid}
    IN IF idx = {} THEN 0 ELSE CHOOSE i \in idx : \A j \in idx : j <= i

\* The step that processes the message removes the record of its sessionId,
\* leaves all other records as they are, and broadcasts the matching event
\* once, at a moment when the record is already gone.
SessionEndStep ==
    (running /\ SessionEndAtHead)
      => /\ \A e \in sessions' : e.sessionId # metadata.sessionId
         /\ sessions' = {e \in sessions : e.sessionId # metadata.sessionId}
         /\ published' = Append(published, [type |-> msgType,
                                            sessionId |-> metadata.sessionId,
                                            registered |-> FALSE])

\* No record exists for a session whose last event was a close or an unbind.
ClosedStaysAbsent ==
    \A sid \in SessionIds :
        (LastSessionEvent(sid) # 0 /\ trace[LastSessionEvent(sid)].ev # "onSnapshot")
          => RecordsOf(sid) = {}

\* C18: processing session_closed or session_unbound for s removes the
\* record of s before the matching event is broadcast, leaves the records of
\* other sessions unchanged, and s has no record until a snapshot for s is
\* delivered afterwards.
C18_SessionEndRemovesBeforeBroadcast == []ClosedStaysAbsent /\ [][SessionEndStep]_vars

\* C18 witness: sessions a and b had records, session a was unbound: the
\* event was broadcast with the record gone, and b's record is still there.
C18_Witness ==
    /\ Count("onSnapshot") = 2
    /\ trace[Len(trace)] = [ev |-> "onSessionUnbound", sessionId |-> "a"]
    /\ published[Len(published)]
         = [type |-> "session_unbound", sessionId |-> "a", registered |-> FALSE]
    /\ RecordsOf("a") = {}
    /\ \E e \in sessions : e.sessionId = "b"

(***************************************************************************)
(* WebSocket clients (websocket.js): connection, close and error events    *)
(***************************************************************************)

\* clients.delete(ws)
clientsDelete(cs, w) == SelectSeq(cs, LAMBDA c : c # w)

\* clients.add(ws)
clientsAdd(cs, w) == IF \E i \in DOMAIN cs : cs[i] = w THEN cs ELSE Append(cs, w)

\* the sockets in `clients`
Registered == {clients[i] : i \in DOMAIN clients}

\* wss.on('connection'): the client is added and greeted.  The server
\* accepts connections once startServer has resolved, and until
\* closeAllConnections has closed wss.
WsConnection(w) ==
    /\ ~running
    /\ hostPc \in {"openBrowser", "done"}
    /\ exitState = "running"
    /\ readyState[w] = "NONE"
    /\ readyState' = [readyState EXCEPT ![w] = "OPEN"]
    /\ clients' = clientsAdd(clients, w)
    /\ sent' = [sent EXCEPT ![w] = Append(@, [type |-> "connected"])]
    /\ UNCHANGED <<socketError, undelivered, raised>>
    /\ UNCHANGED <<stdinVars, parserVars, trace, hostVars, mmapVars, procVars>>

\* the connection of an open socket fails; ws has not noticed yet
WsSocketFails(w) ==
    /\ ~running
    /\ readyState[w] = "OPEN"
    /\ w \notin socketError
    /\ socketError' = socketError \cup {w}
    /\ UNCHANGED <<clients, readyState, sent, undelivered, raised>>
    /\ UNCHANGED <<stdinVars, parserVars, trace, hostVars, mmapVars, procVars>>

\* a close frame arrives or the failed connection is torn down: ws moves to
\* CLOSING and emits 'close' later
WsClosing(w) ==
    /\ ~running
    /\ readyState[w] = "OPEN"
    /\ readyState' = [readyState EXCEPT ![w] = "CLOSING"]
    /\ socketError' = socketError \ {w}
    /\ UNCHANGED <<clients, sent, undelivered, raised>>
    /\ UNCHANGED <<stdinVars, parserVars, trace, hostVars, mmapVars, procVars>>

\* Mutant: the 'error' handler leaves the client in the set.
WsOnErrorMutKeepsClient(w) ==
    /\ ~running
    /\ readyState[w] = "OPEN"
    /\ w \in socketError
    /\ readyState' = [readyState EXCEPT ![w] = "CLOSING"]
    /\ socketError' = socketError \ {w}
    /\ raised' = raised \cup {w}
    /\ UNCHANGED <<clients, sent, undelivered>>
    /\ UNCHANGED <<stdinVars, parserVars, trace, hostVars, mmapVars, procVars>>

\* ws.on('error'): clients.delete(ws); ws is CLOSING when it emits 'error'
WsOnError(w) ==
    /\ ~running
    /\ readyState[w] = "OPEN"
    /\ w \in socketError
    /\ readyState' = [readyState EXCEPT ![w] = "CLOSING"]
    /\ socketError' = socketError \ {w}
    /\ clients' = clientsDelete(clients, w)
    /\ raised' = raised \cup {w}
    /\ UNCHANGED <<sent, undelivered>>
    /\ UNCHANGED <<stdinVars, parserVars, trace, hostVars, mmapVars, procVars>>

\* ws.on('close'): clients.delete(ws); ws is CLOSED when it emits 'close'
WsOnClose(w) ==
    /\ ~running
    /\ readyState[w] = "CLOSING"
    /\ readyState' = [readyState EXCEPT ![w] = "CLOSED"]
    /\ clients' = clientsDelete(clients, w)
    /\ raised' = raised \cup {w}
    /\ UNCHANGED <<sent, socketError, undelivered>>
    /\ UNCHANGED <<stdinVars, parserVars, trace, hostVars, mmapVars, procVars>>

\* The producer's streams while clients come and go
BroadcastStreams == LifecycleStreams

InitBroadcast ==
    /\ input \in BroadcastStreams
    /\ fed = <<>>
    /\ consumed = <<>>
    /\ buffer = <<>>
    /\ started = FALSE
    /\ flowing = FALSE
    /\ handshakeComplete = FALSE
    /\ running = FALSE
    /\ pending = <<>>
    /\ packageInfo = FALSE
    /\ trace = <<>>
    /\ sessions = {}
    /\ published = <<>>
    /\ serverStarted = FALSE
    /\ server = "null"
    /\ hostPc = "idle"
    /\ stops = 0
    /\ InitMmap("linux")
    /\ InitWs
    /\ exitState = "running"
    /\ transport = defaultTransport
    /\ otherParser = NewParser
    /\ cachedTable = NoTable
    /\ viewer = NewViewer

NextBroadcast ==
    \/ Next
    \/ \E w \in Sockets : WsConnection(w)
    \/ \E w \in Sockets : WsSocketFails(w)
    \/ \E w \in Sockets : WsClosing(w)
    \/ \E w \in Sockets : WsOnError(w)
    \/ \E w \in Sockets : WsOnClose(w)

SpecBroadcast == InitBroadcast /\ [][NextBroadcast]_vars

\* A step that hands messages to broadcast, and the messages it hands over
Broadcasts == Len(published') > Len(published)

NewMessages == SubSeq(published', Len(published) + 1, Len(published'))

\* Every registered client that is open is sent the messages, in order.
BroadcastReachesOpenClients ==
    Broadcasts =>
        \A c \in Registered :
            readyState[c] = "OPEN" => sent'[c] = sent[c] \o NewMessages

\* C19: broadcast passes the event to every registered client whose socket
\* is open; a client whose connection has failed does not keep the event
\* from the clients after it.
C19_BroadcastReachesEveryOpenClient == [][BroadcastReachesOpenClients]_vars

\* C19 witness: session_closed was broadcast while the connection of the
\* client registered first had failed; the client registered second got it.
C19_Witness ==
    \E i, j \in DOMAIN clients :
        /\ i < j
        /\ undelivered[clients[i]] # <<>>
        /\ undelivered[clients[i]][Len(undelivered[clients[i]])].type = "session_closed"
        /\ sent[clients[j]][Len(sent[clients[j]])].type = "session_closed"

\* A client that is not open is sent nothing by broadcast.
BroadcastSkipsClosedClients ==
    Broadcasts =>
        \A c \in Sockets :
            readyState[c] # "OPEN"
              => sent'[c] = sent[c] /\ undelivered'[c] = undelivered[c]

\* The 'close' event leaves the client unregistered, and no socket is
\* registered twice.
ClosedIsDropped ==
    \A c \in Sockets :
        /\ readyState'[c] = "CLOSED" => c \notin {clients'[i] : i \in DOMAIN clients'}
        /\ (readyState[c] # "NONE" /\ c \notin Registered)
             => c \notin {clients'[i] : i \in DOMAIN clients'}

\* Registered clients are open or about to emit 'close'.
RegisteredAreLive == \A c \in Registered : readyState[c] \in {"OPEN", "CLOSING"}

\* The number of broadcast calls the callbacks run so far make: two per
\* onSnapshot, one per other callback and one at the end of onInitialized
CallbackBroadcasts ==
    2 * Count("onSnapshot") + Count("onHeartbeat") + Count("onSessionClosed")
      + Count("onSessionUnbound") + Count("onError")
      + (IF hostPc = "done" THEN 1 ELSE 0)

\* Every callback of the parser ran all its broadcasts, whatever state the
\* clients were in.
IngestionNotStalled == Len(published) = CallbackBroadcasts

\* C20: a client whose socket is not OPEN is sent nothing by broadcast, the
\* broadcast and the parser loop calling it go on, and once the socket's
\* 'close' event is handled the client is not registered any more.
C20_NotWritableClientDropped ==
    /\ [](RegisteredAreLive /\ IngestionNotStalled)
    /\ [][BroadcastSkipsClosedClients /\ BroadcastReachesOpenClients /\ ClosedIsDropped]_vars

\* C20 witness: session_closed was broadcast while the client registered
\* first was CLOSING and still registered: it was sent nothing, the open
\* client after it got the message.
C20_Witness ==
    \E i, j \in DOMAIN clients :
        /\ i < j
        /\ readyState[clients[i]] = "CLOSING"
        /\ \A k \in DOMAIN sent[clients[i]] : sent[clients[i]][k].type # "session_closed"
        /\ sent[clients[j]][Len(sent[clients[j]])].type = "session_closed"

(***************************************************************************)
(* Event order specification: clients connect and close while the parser   *)
(* handles the life-cycle streams and a file-mode snapshot followed by an  *)
(* inline snapshot.                                                        *)
(***************************************************************************)

EventOrderStreams ==
    LifecycleStreams
    \cup {LineFrame(ObjText(73)) \o LineFrame(ObjText(102))
            \o InlineFrame(ObjText(110), LE64(0), <<>>)}

InitEventOrder ==
    /\ input \in EventOrderStreams
    /\ fed = <<>>
    /\ consumed = <<>>
    /\ buffer = <<>>
    /\ started = FALSE
    /\ flowing = FALSE
    /\ handshakeComplete = FALSE
    /\ running = FALSE
    /\ pending = <<>>
    /\ packageInfo = FALSE
    /\ trace = <<>>
    /\ sessions = {}
    /\ published = <<>>
    /\ serverStarted = FALSE
    /\ server = "null"
    /\ hostPc = "idle"
    /\ stops = 0
    /\ InitMmap("linux")
    /\ InitWs
    /\ exitState = "running"
    /\ transport = defaultTransport
    /\ otherParser = NewParser
    /\ cachedTable = NoTable
    /\ viewer = NewViewer

NextEventOrder ==
    \/ Next
    \/ \E w \in Sockets : WsConnection(w)
    \/ \E w \in Sockets : WsClosing(w)
    \/ \E w \in Sockets : WsOnClose(w)

SpecEventOrder == InitEventOrder /\ [][NextEventOrder]_vars

\* What a client was sent after its greeting
EventsOf(c) == IF sent[c] = <<>> THEN <<>> ELSE Tail(sent[c])

\* The events of a client are one run of consecutive broadcasts, in the
\* order of the broadcast calls.
SentInPublishOrder ==
    \A c \in Sockets :
        \E i \in 1..(Len(published) + 1) :
            /\ i + Len(EventsOf(c)) - 1 <= Len(published)
            /\ EventsOf(c) = SubSeq(published, i, i + Len(EventsOf(c)) - 1)

\* In what a client was sent, the 'snapshot' event of a delivery comes
\* directly before the 'log' event of the same delivery.
SnapshotBeforeItsLog ==
    \A c \in Sockets : \A k \in DOMAIN EventsOf(c) :
        (EventsOf(c)[k].type = "log" /\ EventsOf(c)[k].level = "info"
           /\ "sequenceNumber" \in DOMAIN EventsOf(c)[k] /\ k > 1)
          => /\ EventsOf(c)[k - 1].type = "snapshot"
             /\ EventsOf(c)[k - 1].sessionId = EventsOf(c)[k].sessionId

IsSnapshotLog(e) == e.type = "log" /\ "sequenceNumber" \in DOMAIN e

\* The sequence numbers of the snapshot frames whose events a client was sent
SnapshotEventsOf(c) ==
    LET logs == SelectSeq(EventsOf(c), IsSnapshotLog)
    IN [k \in DOMAIN logs |-> logs[k].sequenceNumber]

\* The events of an earlier frame of the stream come before the events of a
\* later frame.
EventsInFrameOrder ==
    \A c \in Sockets : IsSubsequence(SnapshotEventsOf(c), ArrivedSnapshots(consumed))

\* C21 (as claimed): every client is sent the events in the order of the
\* broadcast calls, the 'snapshot' event of a frame before its 'log' event,
\* and the events of an earlier frame before those of a later frame.
C21_EventsInPublishAndFrameOrder ==
    SentInPublishOrder /\ SnapshotBeforeItsLog /\ EventsInFrameOrder

(***************************************************************************)
(* shutdown and command messages; the shutdown of the process (index.js)   *)
(***************************************************************************)

\* process.exit: stdin is never read again and every suspended call is gone
ProcessExit ==
    /\ input' = <<>>
    /\ running' = FALSE
    /\ pending' = <<>>
    /\ hostPc' = "exited"
    /\ exitState' = "exited"

\* closeAllConnections: client.close() for every client, then clients.clear()
closeAllConnections ==
    /\ readyState' = [c \in Sockets |->
                        IF c \in Registered /\ readyState[c] = "OPEN" THEN "CLOSING"
                        ELSE readyState[c]]
    /\ clients' = <<>>

\* Mutant: the rest of the buffer is dropped with the line.
ParseCommandMutDropsBuffer ==
    /\ HeadIs("command")
    /\ buffer' = <<>>
    /\ consumed' = consumed \o WireLine
    /\ \E version \in Versions : trace' = trace \o handleCommand(metadata, version)
    /\ UNCHANGED <<stdinVars, handshakeComplete, running, pending, packageInfo, hostVars>>
    /\ UNCHANGED <<mmapVars, wsVars, procVars>>

\* case 'command'
ParseCommand ==
    /\ HeadIs("command")
    /\ buffer' = DropLine(buffer, newlineIndex)
    /\ consumed' = consumed \o WireLine
    /\ \E version \in Versions : trace' = trace \o handleCommand(metadata, version)
    /\ UNCHANGED <<stdinVars, handshakeComplete, running, pending, packageInfo, hostVars>>
    /\ UNCHANGED <<mmapVars, wsVars, procVars>>

\* Mutant: the connections are closed before 'shutdown' is broadcast.
ParseShutdownMutClosesFirst ==
    /\ HeadIs("shutdown")
    /\ buffer' = DropLine(buffer, newlineIndex)
    /\ consumed' = consumed \o WireLine
    /\ trace' = Append(trace, [ev |-> "onShutdown"])
    /\ published' = Append(published, [type |-> "shutdown"])
    /\ IF server = "created"
         THEN /\ closeAllConnections
              /\ exitState' = "stopping"
              /\ UNCHANGED <<input, running, pending, hostPc>>
         ELSE /\ ProcessExit
              /\ UNCHANGED <<clients, readyState>>
    /\ UNCHANGED <<fed, started, flowing, stops, handshakeComplete, packageInfo,
                   sessions, serverStarted, server, socketError, raised, mmapVars,
                   transport, otherParser, cachedTable, viewer, sent,
                   undelivered>>

\* case 'shutdown': onShutdown broadcasts 'shutdown' and calls shutdown(server),
\* which exits at once without a server and otherwise closes the connections
\* and waits for stopServer
ParseShutdown ==
    /\ HeadIs("shutdown")
    /\ buffer' = DropLine(buffer, newlineIndex)
    /\ consumed' = consumed \o WireLine
    /\ trace' = Append(trace, [ev |-> "onShutdown"])
    /\ broadcast(<<[type |-> "shutdown"]>>)
    /\ IF server = "created"
         THEN /\ closeAllConnections
              /\ exitState' = "stopping"
              /\ UNCHANGED <<input, running, pending, hostPc>>
         ELSE /\ ProcessExit
              /\ UNCHANGED <<clients, readyState>>
    /\ UNCHANGED <<fed, started, flowing, stops, handshakeComplete, packageInfo,
                   sessions, serverStarted, server, socketError, raised, mmapVars,
                   transport, otherParser, cachedTable, viewer>>

\* stopServer settles: process.exit
StopServerDone ==
    /\ ~running
    /\ exitState = "stopping"
    /\ ProcessExit
    /\ UNCHANGED <<fed, started, flowing, stops, buffer, consumed, handshakeComplete,
                   packageInfo, trace, sessions, published, serverStarted, server,
                   mmapVars, wsVars, transport, otherParser, cachedTable, viewer>>

\* One message of every type, and lines that are no known message
MessageFrames ==
    { LineFrame(ObjText(105)), LineFrame(ObjText(73)), LineFrame(ObjText(104)),
      LineFrame(ObjText(99)), LineFrame(ObjText(117)), LineFrame(ObjText(113)),
      LineFrame(ObjText(118)), LineFrame(ObjText(114)), LineFrame(ObjText(119)),
      LineFrame(ObjText(101)),
      LineFrame(ObjText(122)), LineFrame(ObjText(111)), LineFrame(NumberText),
      LineFrame(ObjText(102)), InlineFrame(ObjText(115), LE64(2), PayloadA) }

MessageStreams ==
    LifecycleStreams
    \cup {f \o g : f, g \in MessageFrames}
    \cup {LineFrame(ObjText(73)) \o f \o LineFrame(ObjText(104)) : f \in MessageFrames}

InitMessages ==
    /\ input \in MessageStreams
    /\ fed = <<>>
    /\ consumed = <<>>
    /\ buffer = <<>>
    /\ started = FALSE
    /\ flowing = FALSE
    /\ handshakeComplete = FALSE
    /\ running = FALSE
    /\ pending = <<>>
    /\ packageInfo = FALSE
    /\ trace = <<>>
    /\ sessions = {}
    /\ published = <<>>
    /\ serverStarted = FALSE
    /\ server = "null"
    /\ hostPc = "idle"
    /\ stops = 0
    /\ InitMmap("linux")
    /\ InitWs
    /\ exitState = "running"
    /\ transport = defaultTransport
    /\ otherParser = NewParser
    /\ cachedTable = NoTable
    /\ viewer = NewViewer

NextMessages ==
    \/ Next
    \/ ParseSessionUnbound
    \/ ParseCommand
    \/ ParseShutdown
    \/ StopServerDone

SpecMessages == InitMessages /\ [][NextMessages]_vars

\* parseMessage is entered with a decoded line at the head that is no
\* snapshot: a message of another known type or of an unrecognized type
LineOnlyAtHead ==
    /\ running
    /\ newlineIndex # -1
    /\ ~parsed.threw
    /\ ~parsed.isNull
    /\ msgType # "snapshot"

\* C22: processing a message of type initialize, initialized, heartbeat,
\* session_closed, session_unbound, shutdown, command or of an unrecognized
\* type removes the metadata line and its newline from the front of the
\* buffer and nothing else, before and after the handshake.
C22_LineOnlyMessagesDropTheirLine ==
    [][LineOnlyAtHead => buffer = jsonLine \o <<NL>> \o buffer']_vars

\* C22 witness: before the handshake a command was answered and the buffer
\* holds exactly the heartbeat line that followed it.
C22_Witness ==
    /\ ~handshakeComplete
    /\ running
    /\ consumed = LineFrame(ObjText(114))
    /\ Count("command_result") = 1
    /\ buffer = LineFrame(ObjText(104))

\* The number of messages of type t among the frames consumed so far
Consumed(t) ==
    LET msgs == ArrivedMessages(consumed)
    IN Cardinality({i \in DOMAIN msgs :
         ~msgs[i].threw /\ ~msgs[i].isNull /\ Get(msgs[i].value, "type") = t})

\* The step that processes a heartbeat writes one pong line, then notifies
\* onHeartbeat once, and leaves the handshake state and the registry alone.
HeartbeatStep ==
    HeadIs("heartbeat")
      => /\ trace' = trace \o <<[ev |-> "pong"], [ev |-> "onHeartbeat"]>>
         /\ handshakeComplete' = handshakeComplete
         /\ sessions' = sessions

\* Pongs and notifications are as many as the heartbeats processed.
OnePongPerHeartbeat ==
    /\ Count("pong") = Consumed("heartbeat")
    /\ Count("onHeartbeat") = Consumed("heartbeat")

\* C23: every heartbeat produces exactly one pong line followed by exactly
\* one onHeartbeat notification, before and after the handshake, and changes
\* neither the handshake state nor the session registry.
C23_HeartbeatPongThenNotify == []OnePongPerHeartbeat /\ [][HeartbeatStep]_vars

\* C23 witness: two heartbeats before the handshake: two pongs, each
\* followed by its notification, and the parser is still not ready.
C23_Witness ==
    /\ ~handshakeComplete
    /\ trace = <<[ev |-> "pong"], [ev |-> "onHeartbeat"],
                 [ev |-> "pong"], [ev |-> "onHeartbeat"]>>

PendingInitialize == Cardinality({i \in DOMAIN pending : pending[i].op = "init"})

\* One response per initialize line processed: written, or waiting for
\* package.json while the process lives; each carries name and version.
OneResponsePerInitialize ==
    /\ Count("initialize_response") <= Consumed("initialize")
    /\ exitState # "exited"
         => Count("initialize_response") + PendingInitialize = Consumed("initialize")
    /\ \A i \in DOMAIN trace :
         trace[i].ev = "initialize_response"
           => trace[i].name = PackageName /\ trace[i].version = PackageVersion

\* The handshake state changes only by an `initialized` line, to ready.
OnlyInitializedMakesReady ==
    handshakeComplete' # handshakeComplete
      => HeadIs("initialized") /\ handshakeComplete'

IsCommandResult(e) == e.ev = "command_result"

\* A command_result has a result exactly when success is true and an error
\* exactly when it is false.
CommandResultsWellFormed ==
    \A i \in DOMAIN trace :
        IsCommandResult(trace[i])
          => /\ trace[i].success <=> "result" \in DOMAIN trace[i]
             /\ ~trace[i].success <=> "error" \in DOMAIN trace[i]

\* The step that processes a command with a commandId writes one
\* command_result for that commandId: success for get_version, failure for
\* every other commandType.  A command without commandId writes nothing.
IdentifiedCommandAnswered ==
    HeadIs("command")
      => IF Falsy(Get(metadata, "commandId"))
           THEN trace' = trace
           ELSE /\ Len(trace') = Len(trace) + 1
                /\ IsCommandResult(trace'[Len(trace')])
                /\ trace'[Len(trace')].commandId = metadata.commandId
                /\ trace'[Len(trace')].success
                     <=> Get(metadata, "commandType") = "get_version"

\* C25 (amended): every command message that carries a non-empty commandId
\* results in exactly one command_result with that commandId, success with a
\* result for get_version and failure with an error and no result for any
\* other commandType; a command without commandId gets no command_result;
\* no command_result carries both a result and an error.
C25_IdentifiedCommandsAnswered ==
    []CommandResultsWellFormed /\ [][IdentifiedCommandAnswered]_vars

\* C25 witness: a command without commandId was passed over in silence and
\* the command of unknown type after it was answered with an error.
C25_Witness ==
    /\ consumed = LineFrame(ObjText(119)) \o LineFrame(ObjText(114))
    /\ trace = <<[ev |-> "command_result", commandId |-> "k2", success |-> FALSE,
                  error |-> UnknownCommandType]>>

\* The step that processes any command writes one command_result.
CommandAnswered ==
    HeadIs("command")
      => /\ Len(trace') = Len(trace) + 1
         /\ IsCommandResult(trace'[Len(trace')])
         /\ trace'[Len(trace')].commandId = Get(metadata, "commandId")
         /\ trace'[Len(trace')].success <=> Get(metadata, "commandType") = "get_version"

\* C25 (as claimed): every command message results in exactly one
\* command_result with the same commandId, success with a result for
\* get_version and failure with an error for any other commandType, and no
\* command_result carries both a result and an error.
C25_EveryCommandAnswered ==
    /\ [](CommandResultsWellFormed /\ Count("command_result") = Consumed("command"))
    /\ [][CommandAnswered]_vars

NonHandshakeTypes == {"snapshot", "heartbeat", "session_closed", "session_unbound",
                      "command"}

\* parseMessage is entered with a message at the head that is not part of
\* the handshake
NonHandshakeAtHead ==
    /\ running
    /\ newlineIndex # -1
    /\ ~parsed.threw
    /\ ~parsed.isNull
    /\ msgType \in NonHandshakeTypes

\* What the step does in the Ready state, by message type: its response
\* lines and callbacks, its effect on the registry, the read it starts
ReadyEffect ==
    CASE msgType = "heartbeat" ->
           /\ trace' = trace \o <<[ev |-> "pong"], [ev |-> "onHeartbeat"]>>
           /\ sessions' = sessions
      [] msgType = "session_closed" ->
           /\ trace' = Append(trace, [ev |-> "onSessionClosed",
                                      sessionId |-> Get(metadata, "sessionId")])
           /\ sessions' = {e \in sessions : e.sessionId # Get(metadata, "sessionId")}
      [] msgType = "session_unbound" ->
           /\ trace' = Append(trace, [ev |-> "onSessionUnbound",
                                      sessionId |-> Get(metadata, "sessionId")])
           /\ sessions' = {e \in sessions : e.sessionId # Get(metadata, "sessionId")}
      [] msgType = "command" ->
           /\ \E version \in Versions : trace' = trace \o handleCommand(metadata, version)
           /\ sessions' = sessions
      [] msgType = "snapshot" /\ transportMode \in {"file", "mmap"} ->
           /\ pending' = Append(pending, [op |-> transportMode, metadata |-> metadata])
           /\ trace' = trace
           /\ sessions' = sessions
      [] msgType = "snapshot" /\ transportMode \notin {"file", "mmap"} ->
           IF InlineNeedsMore(buffer, dataStart)
             THEN UNCHANGED <<buffer, trace, sessions>>
           ELSE IF ChecksumMismatch(metadata, binaryData)
             THEN /\ trace' = Append(trace, [ev |-> "onError", cause |-> "checksum"])
                  /\ sessions' = sessions
           ELSE /\ trace' = trace \o
                     << sendAck(Get(metadata, "sequenceNumber")),
                        [ev |-> "onSnapshot", metadata |-> metadata, data |-> binaryData] >>
                /\ \E e \in sessions' :
                     e.sessionId = metadata.sessionId /\ e.data = binaryData

\* C26: a snapshot, heartbeat, session_closed, session_unbound or command
\* message is processed in the same way whether or not initialize and
\* initialized have been received, and leaves the handshake state as it is.
C26_HandshakeOrderNotRequired ==
    [][NonHandshakeAtHead => (ReadyEffect /\ handshakeComplete' = handshakeComplete)]_vars

\* C26 witness: with no handshake at all an inline snapshot was acked,
\* delivered and stored, and session_closed then removed it.
C26_Witness ==
    /\ ~handshakeComplete
    /\ Count("onInitialized") = 0
    /\ Count("initialize_response") = 0
    /\ Len(trace) = 3
    /\ trace[1] = sendAck(1)
    /\ trace[2].ev = "onSnapshot"
    /\ trace[3] = [ev |-> "onSessionClosed", sessionId |-> "a"]
    /\ sessions = {}

(***************************************************************************)
(* The transport path of a snapshot (parseSnapshot, parser.js 300-360)     *)
(* under each --transport option                                           *)
(***************************************************************************)

\* --transport / ASPOSE_PREVIEW_TRANSPORT (config.js), README: stdin/file/mmap
TransportOptions == {"stdin", "file", "mmap"}

\* snapshot lines whose transportMode is absent, "stdin", unknown and "",
\* each followed by a length-prefixed payload
TransportStreams ==
    LifecycleStreams \cup
    { InlineFrame(ObjText(t), LE64(2), PayloadB) : t \in {110, 116, 112, 121} }

InitTransport ==
    /\ input \in TransportStreams
    /\ fed = <<>>
    /\ consumed = <<>>
    /\ buffer = <<>>
    /\ started = FALSE
    /\ flowing = FALSE
    /\ handshakeComplete = FALSE
    /\ running = FALSE
    /\ pending = <<>>
    /\ packageInfo = FALSE
    /\ trace = <<>>
    /\ sessions = {}
    /\ published = <<>>
    /\ serverStarted = FALSE
    /\ server = "null"
    /\ hostPc = "idle"
    /\ stops = 0
    /\ InitMmap("linux")
    /\ InitWs
    /\ exitState = "running"
    /\ transport \in TransportOptions
    /\ otherParser = NewParser
    /\ cachedTable = NoTable
    /\ viewer = NewViewer

SpecTransport == InitTransport /\ [][Next]_vars

\* a snapshot line is at the head of the buffer of a running call
SnapshotAtHead ==
    /\ running
    /\ newlineIndex # -1
    /\ ~parsed.threw
    /\ ~parsed.isNull
    /\ msgType = "snapshot"

\* the step awaits a read of the given kind for the message at the head and
\* has dropped exactly its metadata line
TakesReadPath(op) ==
    /\ pending' = Append(pending, [op |-> op, metadata |-> metadata])
    /\ buffer = jsonLine \o <<NL>> \o buffer'
    /\ trace' = trace

\* the step handles the message at the head as inline: nothing is read, and
\* the buffer is untouched until prefix and payload are complete, when the
\* whole frame leaves it
TakesInlinePath ==
    /\ pending' = pending
    /\ IF InlineNeedsMore(buffer, dataStart)
       THEN buffer' = buffer /\ trace' = trace
       ELSE buffer' = SubarrayFrom(buffer, totalSize) /\ trace' # trace

\* the path a step must take when the mode is resolved to `mode`
PathOf(mode) ==
    CASE mode = "file" -> TakesReadPath("file")
      [] mode = "mmap" -> TakesReadPath("mmap")
      [] OTHER -> TakesInlinePath

\* the message's transportMode when the field is present, else the default
ModeIfPresent ==
    IF "transportMode" \in DOMAIN metadata THEN metadata.transportMode ELSE transport

\* the message's transportMode when it is a non-empty string, else the default
ModeIfNonEmpty ==
    IF "transportMode" \in DOMAIN metadata /\ metadata.transportMode # ""
    THEN metadata.transportMode ELSE transport

\* C27 as stated: every snapshot takes exactly the path of its transportMode
\* when the field is present and of the process-wide default otherwise:
\* 'file' reads filePath, 'mmap' reads shared memory, every other value
\* (including 'stdin' and unknown strings) is handled as inline with the
\* metadata line not consumed until the full payload is buffered.
C27_PathByPresentMode ==
    [][SnapshotAtHead => PathOf(ModeIfPresent)]_vars

\* C27 amended: every snapshot takes exactly the path of its transportMode
\* when the field is present and not the empty string, and of the
\* process-wide default otherwise; 'file' reads filePath, 'mmap' reads shared
\* memory, every other value is handled as inline with the metadata line not
\* consumed until the full payload is buffered.
C27_PathByNonEmptyMode ==
    [][SnapshotAtHead => PathOf(ModeIfNonEmpty)]_vars

\* C27 witness: with --transport file, a snapshot that says "stdin" was
\* delivered from its inline payload and nothing was read from a file.
C27_Witness ==
    /\ transport = "file"
    /\ pending = <<>>
    /\ \E i \in DOMAIN trace :
          /\ trace[i].ev = "onSnapshot"
          /\ Get(trace[i].metadata, "transportMode") = "stdin"
          /\ trace[i].data = PayloadB

(***************************************************************************)
(* Handles of the Windows shared-memory read (mmap.js 58-89)               *)
(***************************************************************************)

\* the positions in the call log of the calls of `fn` on `handle`
CallsOn(fn, handle) ==
    {i \in DOMAIN kernelCalls : kernelCalls[i] = KernelCall(fn, handle)}

\* every file mapping that was opened is closed exactly once, afterwards
MappingsClosedOnce ==
    \A i \in DOMAIN kernelCalls :
        (kernelCalls[i].fn = "OpenFileMappingW" /\ kernelCalls[i].handle # 0)
        => /\ Cardinality(CallsOn("CloseHandle", kernelCalls[i].handle)) = 1
           /\ \A j \in CallsOn("CloseHandle", kernelCalls[i].handle) : j > i

\* every view that was mapped is unmapped exactly once, afterwards, and
\* before the mapping it belongs to is closed (a view carries the number of
\* its mapping)
ViewsUnmappedOnce ==
    \A i \in DOMAIN kernelCalls :
        (kernelCalls[i].fn = "MapViewOfFile" /\ kernelCalls[i].handle # 0)
        => /\ Cardinality(CallsOn("UnmapViewOfFile", kernelCalls[i].handle)) = 1
           /\ \A j \in CallsOn("UnmapViewOfFile", kernelCalls[i].handle) :
                 /\ j > i
                 /\ \A k \in CallsOn("CloseHandle", kernelCalls[i].handle) : j < k

\* nothing is released that was not acquired before
OnlyAcquiredReleased ==
    \A j \in DOMAIN kernelCalls :
        /\ kernelCalls[j].fn = "CloseHandle"
           => /\ kernelCalls[j].handle # 0
              /\ \E i \in CallsOn("OpenFileMappingW", kernelCalls[j].handle) : i < j
        /\ kernelCalls[j].fn = "UnmapViewOfFile"
           => /\ kernelCalls[j].handle # 0
              /\ \E i \in CallsOn("MapViewOfFile", kernelCalls[j].handle) : i < j

\* C28: in the Windows shared-memory read every acquired handle is released
\* on every path: a mapping OpenFileMappingW returned is closed exactly once
\* whether MapViewOfFile or the copy succeeds or throws, a view MapViewOfFile
\* returned is unmapped exactly once before that CloseHandle, and nothing is
\* released that was never acquired.
C28_WindowsHandlesReleased ==
    /\ MappingsClosedOnce
    /\ ViewsUnmappedOnce
    /\ OnlyAcquiredReleased

\* C28 witness: two reads have thrown after OpenFileMappingW succeeded, one
\* because MapViewOfFile returned null and one during the copy; both
\* mappings were closed and the one view was unmapped.
C28_Witness ==
    /\ \E h \in 1..2 :
          /\ CallsOn("OpenFileMappingW", h) # {}
          /\ CallsOn("MapViewOfFile", h) = {}
          /\ CallsOn("CloseHandle", h) # {}
    /\ \E h \in 1..2 :
          /\ CallsOn("UnmapViewOfFile", h) # {}
          /\ CallsOn("CloseHandle", h) # {}
    /\ Cardinality({i \in DOMAIN trace :
                       trace[i].ev = "onError" /\ trace[i].cause = "mmap"}) = 2

(***************************************************************************)
(* REST routes on the session store (routes.js 21-58, 82-86): requests     *)
(* and store calls in any order.  Here `trace` is the log of the calls and *)
(* requests made, a request with the status code it was answered with.     *)
(* An originalPath is the sequence of its UTF-16 code units.               *)
(***************************************************************************)

IsHighSurrogate(u) == 55296 <= u /\ u <= 56319
IsLowSurrogate(u) == 56320 <= u /\ u <= 57343

\* encodeURIComponent throws a URIError on a string with a lone surrogate
URIMalformed(str) ==
    \E i \in DOMAIN str :
        \/ IsHighSurrogate(str[i]) /\ (i = Len(str) \/ ~IsLowSurrogate(str[i + 1]))
        \/ IsLowSurrogate(str[i]) /\ (i = 1 \/ ~IsHighSurrogate(str[i - 1]))

\* session.originalPath || ''
OrEmpty(str) == IF str = Undefined THEN <<>> ELSE str

\* Metadata of the stored snapshots: a path "/a", a path JSON.parse yields
\* from "\ud800", a path with a surrogate pair, and no path
RouteMetadata ==
    { [originalPath |-> <<47, 97>>, mimeType |-> "image/png", sequenceNumber |-> 1],
      [originalPath |-> <<55296>>, sequenceNumber |-> 2],
      [originalPath |-> <<55357, 56832>>, sequenceNumber |-> 3],
      [sequenceNumber |-> 4] }

\* Payloads of the stored snapshots, the empty one included
RouteData == {PayloadA, <<>>}

\* the record the store holds for sessionId (getSession)
getSession(map, sessionId) == CHOOSE e \in map : e.sessionId = sessionId

\* GET /api/sessions/:sessionId/snapshot
GetSnapshot(sessionId) ==
    /\ Len(trace) < MaxCalls
    /\ IF ~MapHas(sessions, sessionId)
         THEN /\ sessions' = sessions
              /\ trace' = Append(trace, [ev |-> "GET snapshot", sessionId |-> sessionId,
                                         status |-> 404])
       ELSE IF Len(getSession(sessions, sessionId).data) = 0
         THEN /\ sessions' = sessions
              /\ trace' = Append(trace, [ev |-> "GET snapshot", sessionId |-> sessionId,
                                         status |-> 500])
       ELSE /\ sessions' = markAsViewed(sessions, sessionId)
            \* the headers are set after markAsViewed; a throw is caught
            /\ trace' = Append(trace,
                 [ev |-> "GET snapshot", sessionId |-> sessionId,
                  status |-> IF URIMalformed(OrEmpty(
                                    getSession(sessions, sessionId).originalPath))
                             THEN 500 ELSE 200])
    /\ UNCHANGED nonStoreVars

\* POST /api/sessions/:sessionId/viewed
PostViewed(sessionId) ==
    /\ Len(trace) < MaxCalls
    /\ sessions' = markAsViewed(sessions, sessionId)
    /\ trace' = Append(trace, [ev |-> "POST viewed", sessionId |-> sessionId,
                               status |-> 200])
    /\ UNCHANGED nonStoreVars

NextRoutes ==
    \/ \E sid \in SessionIds, m \in RouteMetadata, d \in RouteData :
         StoreUpdateSnapshot(sid, m, d)
    \/ \E sid \in SessionIds : StoreRemoveSession(sid)
    \/ \E sid \in SessionIds : GetSnapshot(sid)
    \/ \E sid \in SessionIds : PostViewed(sid)

SpecRoutes == InitStore /\ [][NextRoutes]_vars

\* the call or request of the step
Request == trace'[Len(trace')]

\* the sessions whose record is flagged as not yet viewed
Unseen(map) == {e.sessionId : e \in {r \in map : r.hasUpdate}}

\* the sessions whose record is flagged as viewed
Seen(map) == {e.sessionId : e \in {r \in map : ~r.hasUpdate}}

\* the flag is set right after an updateSnapshot
UpdateSetsFlag ==
    [][Request.ev = "updateSnapshot" => Request.sessionId \in Unseen(sessions')]_vars

\* a flag is cleared only by a request for the session, POST /viewed or a
\* GET of the snapshot
ClearedOnlyByRequest ==
    [][\A sid \in Unseen(sessions) \cap Seen(sessions') :
          /\ Request.sessionId = sid
          /\ Request.ev \in {"POST viewed", "GET snapshot"}]_vars

\* C29: the unseen flag of a session is true right after every
\* updateSnapshot for it, is cleared only by POST /viewed or by a GET of the
\* snapshot that succeeds, and a GET of the snapshot answered 404 or 500
\* leaves every session's flag as it was.
C29_UnseenFlag ==
    [][/\ Request.ev = "updateSnapshot" => Request.sessionId \in Unseen(sessions')
       /\ \A sid \in Unseen(sessions) \cap Seen(sessions') :
             /\ Request.sessionId = sid
             /\ \/ Request.ev = "POST viewed"
                \/ Request.ev = "GET snapshot" /\ Request.status = 200
       /\ (Request.ev = "GET snapshot" /\ Request.status \in {404, 500})
             => /\ Unseen(sessions') = Unseen(sessions)
                /\ Seen(sessions') = Seen(sessions)]_vars

(***************************************************************************)
(* Two parser instances in one process: the parser of index.js, fed from   *)
(* stdin, and a second instance whose processData is called directly with  *)
(* callbacks that do nothing.  `handshakeComplete` is declared at module   *)
(* level (parser.js 190), `buffer` inside createProtocolParser (217).      *)
(***************************************************************************)

\* The second instance is given at most MaxChunks chunks.
MaxChunks == 2

\* the chunks given to the second instance: an `initialized` line, a
\* heartbeat line, and an `initialized` line in two halves
OtherChunks ==
    { LineFrame(ObjText(73)),
      LineFrame(ObjText(104)),
      SubSeq(LineFrame(ObjText(73)), 1, 2),
      SubSeq(LineFrame(ObjText(73)), 3, Len(LineFrame(ObjText(73)))) }

\* the loop of processData over a buffer of complete lines of type
\* initialized or heartbeat, of other types and of unparsable text: what is
\* left in the buffer, whether `handshakeComplete = true` was executed, and
\* the lines written to stdout
RECURSIVE processLines(_)
processLines(buf) ==
    IF IndexOf(buf, NL) = -1
      THEN [buffer |-> buf, initialized |-> FALSE, written |-> <<>>]
    ELSE LET line == JSONParse(Subarray(buf, 0, IndexOf(buf, NL)))
             rest == processLines(DropLine(buf, IndexOf(buf, NL)))
             type == IF line.threw \/ line.isNull THEN Undefined
                     ELSE Get(line.value, "type")
         IN  [buffer |-> rest.buffer,
              initialized |-> rest.initialized \/ type = "initialized",
              written |-> IF type = "heartbeat" THEN <<sendPong>> \o rest.written
                          ELSE rest.written]

\* processData(chunk) on the second instance
OtherProcessData(chunk) ==
    /\ ~running
    /\ otherParser.chunks < MaxChunks
    /\ LET r == processLines(Concat(otherParser.buffer, chunk))
       IN  /\ otherParser' = [buffer |-> r.buffer, chunks |-> otherParser.chunks + 1]
           /\ handshakeComplete' = (handshakeComplete \/ r.initialized)
           /\ trace' = trace \o r.written
    /\ UNCHANGED <<stdinVars, buffer, consumed, running, pending, packageInfo, hostVars>>
    /\ UNCHANGED <<mmapVars, wsVars, exitState, transport, cachedTable, viewer>>

InstanceStreams ==
    { LineFrame(ObjText(104)),
      LineFrame(ObjText(73)),
      LineFrame(ObjText(104)) \o LineFrame(ObjText(73)) }

InitInstances ==
    /\ input \in InstanceStreams
    /\ fed = <<>>
    /\ consumed = <<>>
    /\ buffer = <<>>
    /\ started = FALSE
    /\ flowing = FALSE
    /\ handshakeComplete = FALSE
    /\ running = FALSE
    /\ pending = <<>>
    /\ packageInfo = FALSE
    /\ trace = <<>>
    /\ sessions = {}
    /\ published = <<>>
    /\ serverStarted = FALSE
    /\ server = "null"
    /\ hostPc = "idle"
    /\ stops = 0
    /\ InitMmap("linux")
    /\ InitWs
    /\ exitState = "running"
    /\ transport = defaultTransport
    /\ otherParser = NewParser
    /\ cachedTable = NoTable
    /\ viewer = NewViewer

NextInstances ==
    \/ Start
    \/ \E k \in 1..Len(input) : StdinData(k)
    \/ ParseNoNewline
    \/ ParseInitialized
    \/ ParseHeartbeat
    \/ CreateServerDone
    \/ StartServerDone
    \/ OpenBrowserDone
    \/ \E chunk \in OtherChunks : OtherProcessData(chunk)

SpecInstances == InitInstances /\ [][NextInstances]_vars

\* the step gives a chunk to the second instance
OtherFed == otherParser'.chunks = otherParser.chunks + 1

\* the step is one of the parser of index.js on its own buffer
MainParses == running /\ newlineIndex # -1

\* each instance has a buffer of its own: a step of one leaves the buffer of
\* the other as it was
BuffersApart ==
    [][/\ OtherFed => buffer' = buffer
       /\ MainParses => otherParser'.buffer = otherParser.buffer]_vars

\* C30: parser instances do not interfere: each has its own buffer and its
\* own handshake state, so a step in which one instance processes its input,
\* an `initialized` message included, changes neither the buffer of the
\* other instance nor what isReady() returns on the other instance
\* (isReady() is the same closure over the module's variable in both).
C30_InstancesDoNotInterfere ==
    [][/\ OtherFed => (buffer' = buffer /\ isReady' = isReady)
       /\ MainParses => (otherParser'.buffer = otherParser.buffer /\ isReady' = isReady)]_vars

(***************************************************************************)
(* Shutdown while clients are connected (parser.js 274-277, index.js       *)
(* onShutdown 124-130 and shutdown 165-179)                                *)
(***************************************************************************)

\* a shutdown before and after the handshake, followed by a heartbeat, and
\* two shutdown messages in a row
ShutdownStreams ==
    LifecycleStreams
    \cup { LineFrame(ObjText(113)) \o LineFrame(ObjText(104)),
           LineFrame(ObjText(73)) \o LineFrame(ObjText(113)) \o LineFrame(ObjText(104)),
           LineFrame(ObjText(73)) \o LineFrame(ObjText(113)) \o LineFrame(ObjText(113)) }

InitShutdown ==
    /\ input \in ShutdownStreams
    /\ fed = <<>>
    /\ consumed = <<>>
    /\ buffer = <<>>
    /\ started = FALSE
    /\ flowing = FALSE
    /\ handshakeComplete = FALSE
    /\ running = FALSE
    /\ pending = <<>>
    /\ packageInfo = FALSE
    /\ trace = <<>>
    /\ sessions = {}
    /\ published = <<>>
    /\ serverStarted = FALSE
    /\ server = "null"
    /\ hostPc = "idle"
    /\ stops = 0
    /\ InitMmap("linux")
    /\ InitWs
    /\ exitState = "running"
    /\ transport = defaultTransport
    /\ otherParser = NewParser
    /\ cachedTable = NoTable
    /\ viewer = NewViewer

NextShutdown ==
    \/ NextEventOrder
    \/ ParseShutdown
    \/ StopServerDone

SpecShutdown == InitShutdown /\ [][NextShutdown]_vars

\* a shutdown line is at the head of the buffer of a running call
ShutdownAtHead ==
    /\ running
    /\ newlineIndex # -1
    /\ ~parsed.threw
    /\ ~parsed.isNull
    /\ msgType = "shutdown"

\* the clients in the set whose socket is open
OpenSubscribers == {c \in Sockets : c \in Registered /\ readyState[c] = "OPEN"}

\* C31: a shutdown message invokes onShutdown once and consumes only its
\* line; the parser does not stop ingestion (it stays started and, while the
\* process lives, its loop goes on with the same input); every open
\* subscriber is sent 'shutdown' and only then asked to close, the set is
\* cleared and the server is being stopped.
C31_ShutdownAdvisory ==
    [][ShutdownAtHead =>
         /\ trace' = Append(trace, [ev |-> "onShutdown"])
         /\ buffer = jsonLine \o <<NL>> \o buffer'
         /\ started' = started
         /\ exitState' # "exited" => (running' /\ input' = input)
         /\ \A c \in OpenSubscribers :
               sent'[c] = Append(sent[c], [type |-> "shutdown"])
         /\ server = "created"
               => /\ clients' = <<>>
                  /\ \A c \in OpenSubscribers : readyState'[c] = "CLOSING"
                  /\ exitState' = "stopping"]_vars

\* C31 witness: a client was sent 'shutdown' and then asked to close, the
\* set is empty, the server is being stopped, and the heartbeat that
\* followed the shutdown message was answered.
C31_Witness ==
    /\ exitState = "stopping"
    /\ clients = <<>>
    /\ \E c \in Sockets :
          /\ readyState[c] = "CLOSING"
          /\ Len(sent[c]) > 0
          /\ sent[c][Len(sent[c])] = [type |-> "shutdown"]
    /\ \E i, j \in DOMAIN trace :
          i < j /\ trace[i].ev = "onShutdown" /\ trace[j].ev = "pong"

(***************************************************************************)
(* Termination of the loop of processData (parser.js 367-373) for every    *)
(* kind of inline length prefix                                            *)
(***************************************************************************)

\* 8-byte little-endian two's complement encoding of -n, 0 < n < 256
LE64Neg(n) == <<256 - n, 255, 255, 255, 255, 255, 255, 255>>

\* an inline snapshot whose prefix is minus the length of line, newline and
\* prefix (totalSize = 0), alone and before a heartbeat; one whose prefix is
\* one less (totalSize = -1); and one whose prefix exceeds what follows
NegativeStreams ==
    LifecycleStreams
    \cup { InlineFrame(ObjText(103), LE64Neg(Len(ObjText(103)) + 1 + lengthPrefixSize), <<>>),
           InlineFrame(ObjText(103), LE64Neg(Len(ObjText(103)) + 1 + lengthPrefixSize), <<>>)
             \o LineFrame(ObjText(104)),
           InlineFrame(ObjText(103), LE64Neg(Len(ObjText(103)) + 2 + lengthPrefixSize), <<>>),
           InlineFrame(ObjText(103), LE64(3), PayloadB) }

\* The log of a behaviour is followed up to MaxLoop entries.
MaxLoop == 8

InitTermination ==
    /\ input \in NegativeStreams
    /\ fed = <<>>
    /\ consumed = <<>>
    /\ buffer = <<>>
    /\ started = FALSE
    /\ flowing = FALSE
    /\ handshakeComplete = FALSE
    /\ running = FALSE
    /\ pending = <<>>
    /\ packageInfo = FALSE
    /\ trace = <<>>
    /\ sessions = {}
    /\ published = <<>>
    /\ serverStarted = FALSE
    /\ server = "null"
    /\ hostPc = "idle"
    /\ stops = 0
    /\ InitMmap("linux")
    /\ InitWs
    /\ exitState = "running"
    /\ transport = defaultTransport
    /\ otherParser = NewParser
    /\ cachedTable = NoTable
    /\ viewer = NewViewer

\* the log has room for the entries of one more step
Bounded == Len(trace) < MaxLoop

NextTermination ==
    \/ Bounded /\ Start
    \/ Bounded /\ (\E k \in 1..Len(input) : StdinData(k))
    \/ Bounded /\ ParseNoNewline
    \/ Bounded /\ ParseJsonError
    \/ Bounded /\ ParseTypeError
    \/ Bounded /\ ParseInitializeCached
    \/ Bounded /\ ParseInitializeLoad
    \/ Bounded /\ (\E i \in DOMAIN pending : PackageInfoLoaded(i))
    \/ Bounded /\ ParseInitialized
    \/ Bounded /\ ParseHeartbeat
    \/ Bounded /\ ParseSessionClosed
    \/ Bounded /\ ParseUnknown
    \/ Bounded /\ ParseSnapshotFile
    \/ Bounded /\ ParseSnapshotMmap
    \/ Bounded /\ (\E i \in DOMAIN pending : ReadSucceeds(i))
    \/ Bounded /\ (\E i \in DOMAIN pending : ReadFails(i))
    \/ Bounded /\ ParseSnapshotInlineNeedMore
    \/ Bounded /\ ParseSnapshotInlineMismatch
    \/ Bounded /\ ParseSnapshotInlineDeliver
    \/ Bounded /\ CreateServerDone
    \/ Bounded /\ StartServerDone
    \/ Bounded /\ OpenBrowserDone

SpecTermination == InitTermination /\ [][NextTermination]_vars

\* the acknowledgements written for a sequence number
AcksOf(log, n) == {i \in DOMAIN log : log[i] = sendAck(n)}

\* the deliveries of snapshots with a sequence number
DeliveriesOf(log, n) ==
    {i \in DOMAIN log : log[i].ev = "onSnapshot"
                        /\ Get(log[i].metadata, "sequenceNumber") = n}

\* the sequence numbers of the snapshot lines of a stream
SnapshotNumbers ==
    {e.value.sequenceNumber :
        e \in {t \in JSONTable : ~t.isNull /\ Get(t.value, "type") = "snapshot"}}

\* C32: every iteration of the loop of processData that reports a frame as
\* processed leaves the buffer strictly shorter, whatever the inline length
\* prefix, and (in streams that carry every sequence number once) no frame
\* is acknowledged or delivered more than once.
C32_LoopShortensBuffer ==
    [][/\ (running /\ running') => Len(buffer') < Len(buffer)
       /\ \A n \in SnapshotNumbers :
             /\ Cardinality(AcksOf(trace', n)) <= 1
             /\ Cardinality(DeliveriesOf(trace', n)) <= 1]_vars

(***************************************************************************)
(* A snapshot read from a file and the end of its session                  *)
(***************************************************************************)

\* a file-mode snapshot for session a followed by session_closed or
\* session_unbound for session a
SnapshotThenEnd == {LineFrame(ObjText(102)) \o e : e \in SessionEnds}

\* the positions in the broadcasts of the events of a type for a session
EventsFor(type, sid) ==
    {i \in DOMAIN published :
        published[i].type = type /\ Get(published[i], "sessionId") = sid}

\* C33: when a file-mode snapshot for session a and then the end of session
\* a have arrived and both have been handled, the registry has no record for
\* a and the 'snapshot' event for a was broadcast before the event of the
\* session's end, however the chunks and the read were timed.
C33_ClosedSessionNotResurrected ==
    (Quiescent /\ fed \in SnapshotThenEnd)
      => /\ ~MapHas(sessions, "a")
         /\ \A i \in EventsFor("snapshot", "a"),
               j \in EventsFor("session_closed", "a") \cup EventsFor("session_unbound", "a") :
               i < j

(***************************************************************************)
(* Two snapshots for one session, the first read from a file               *)
(***************************************************************************)

\* snapshot A for session a in file mode, then snapshot B for session a
\* with its payload inline
FileThenInline == LineFrame(ObjText(102)) \o InlineFrame(ObjText(115), LE64(2), PayloadA)

\* C34: when the file-mode snapshot A and then the inline snapshot B for the
\* same session have arrived and both have been handled, the registry holds
\* B's payload and sequenceNumber, also when A's read completed after B was
\* received.
C34_RegistryFollowsStreamOrder ==
    (~running /\ pending = <<>> /\ buffer = <<>> /\ fed = FileThenInline)
      => \E e \in sessions :
            /\ e.sessionId = "a"
            /\ e.data = PayloadA
            /\ e.sequenceNumber = JSONParse(ObjText(115)).value.sequenceNumber

(***************************************************************************)
(* The registry when a 'snapshot' event is sent (index.js onSnapshot)      *)
(***************************************************************************)

\* the step delivers a snapshot to the host
DeliversSnapshot ==
    /\ Len(trace') > Len(trace)
    /\ trace'[Len(trace')].ev = "onSnapshot"

\* the events a client is sent in the step
NewlySent(c) == SubSeq(sent'[c], Len(sent[c]) + 1, Len(sent'[c]))

\* in a step that delivers a snapshot every open subscriber is sent its
\* 'snapshot' event, and when the event is sent the registry holds the
\* delivered payload for the session
EventAfterUpdate ==
    DeliversSnapshot =>
      \A c \in Sockets :
        /\ (c \in Registered /\ readyState[c] = "OPEN")
              => \E i \in DOMAIN NewlySent(c) : NewlySent(c)[i].type = "snapshot"
        /\ \A i \in DOMAIN NewlySent(c) :
              NewlySent(c)[i].type = "snapshot"
                => /\ NewlySent(c)[i].sessionId = trace'[Len(trace')].metadata.sessionId
                   /\ NewlySent(c)[i].stored = {trace'[Len(trace')].data}

\* until the session ends the registry holds the payload delivered last
HoldsLastDelivered ==
    \A sid \in SessionIds :
        (LastSessionEvent(sid) # 0 /\ trace[LastSessionEvent(sid)].ev = "onSnapshot")
          => {e.data : e \in RecordsOf(sid)} = {trace[LastSessionEvent(sid)].data}

\* C35: the registry is updated before subscribers are notified: when a
\* subscriber is sent the 'snapshot' event of a session the registry holds
\* the payload of that snapshot, and until the session is closed it holds
\* the payload delivered last, so a fetch after the event finds that payload
\* or one delivered later.
C35_RegistryUpdatedBeforeEvent == []HoldsLastDelivered /\ [][EventAfterUpdate]_vars

\* C35 witness: a client has been sent the 'snapshot' event of session a;
\* the registry held the snapshot's payload then and holds it still.
C35_Witness ==
    \E c \in Sockets :
        \E i \in DOMAIN sent[c] :
            /\ sent[c][i].type = "snapshot"
            /\ sent[c][i].sessionId = "a"
            /\ sent[c][i].stored = {e.data : e \in RecordsOf("a")}
            /\ sent[c][i].stored # {}

(***************************************************************************)
(* The server is started once (index.js onInitialized 100-124)             *)
(***************************************************************************)

\* the stages of onInitialized, in order
Stage(pc) ==
    CASE pc = "idle" -> 0
      [] pc = "createServer" -> 1
      [] pc = "startServer" -> 2
      [] pc = "openBrowser" -> 3
      [] pc = "done" -> 4
      [] OTHER -> 5

\* createServer is entered from idle only, the server object is bound once,
\* and onInitialized never goes back to an earlier stage
StartsOnce ==
    /\ Stage(hostPc') >= Stage(hostPc)
    /\ (hostPc' = "createServer" /\ hostPc # "createServer") => hostPc = "idle"
    /\ server' # server => (server = "null" /\ hostPc = "createServer")

\* the server is not listening yet
NotListening == hostPc \in {"idle", "createServer", "startServer"}

\* the log entry the step appends, if it appends one callback
Appended == trace'[Len(trace')]

\* a snapshot or the end of a session handled before the server listens
\* updates the registry and is broadcast, to nobody, without an error
HandledBeforeListening ==
    (NotListening /\ Len(trace') > Len(trace))
      => /\ Appended.ev = "onSnapshot"
            => /\ StoredData(sessions', Appended.metadata.sessionId) = {Appended.data}
               /\ Len(published') = Len(published) + 2
               /\ published'[Len(published) + 1].type = "snapshot"
         /\ Appended.ev = "onSessionClosed"
            => /\ StoredData(sessions', Appended.sessionId) = {}
               /\ Len(published') = Len(published) + 1
               /\ published'[Len(published')].type = "session_closed"
         /\ Appended.ev \in {"onSnapshot", "onSessionClosed"}
            => /\ clients = <<>>
               /\ sent' = sent
               /\ \A i \in (Len(trace) + 1)..Len(trace') : trace'[i].ev # "onError"

\* C36: the host creates and starts the server at most once, however many
\* `initialized` messages arrive and whenever they arrive during the start;
\* snapshots and session events handled before the server listens update
\* the registry and are broadcast to an empty subscriber set without error.
C36_ServerStartedOnce == [][StartsOnce /\ HandledBeforeListening]_vars

\* C36 witness: onInitialized ran twice, the server was created once and is
\* listening.
C36_Witness ==
    /\ Count("onInitialized") = 2
    /\ server = "created"
    /\ hostPc = "done"

(***************************************************************************)
(* The latch of initializeWindowsAsync (mmap.js 18-50)                     *)
(***************************************************************************)

\* the imports of the bridge that are in progress
BridgeImports == {i \in DOMAIN pending : pending[i].op = "koffi"}

\* the import of the bridge is never in progress twice
BridgeImportedOnce == Cardinality(BridgeImports) <= 1

\* readFromMmap is about to call initializeWindowsAsync, which returns at
\* line 19 with !windowsInitError = true
InitReportsAvailable ==
    /\ HeadIs("snapshot")
    /\ transportMode = "mmap"
    /\ currentPlatform = "win32"
    /\ windowsInitialized
    /\ ~windowsInitError

\* C37: the Windows initialization is attempted at most once, and whenever
\* initializeWindowsAsync reports availability the kernel32 bindings are
\* loaded, also for a call that starts while the first is still awaiting
\* the import of the bridge: readFromWindowsMmap is never entered with
\* kernel32 unset.
C37_AvailableOnlyWhenLoaded ==
    /\ Cardinality(BridgeImports) <= 1
    /\ InitReportsAvailable => kernel32

(***************************************************************************)
(* calculateCRC32 and its lazily built table (parser.js 429-457), called   *)
(* on byte sequences drawn from a small set.  Here `trace` is the log of   *)
(* the calls with the table they used and their results.  The parser       *)
(* specifications apply calculateCRC32 as a function; the cache is         *)
(* followed here.                                                          *)
(***************************************************************************)

\* The checksum is computed at most MaxCrcCalls times.
MaxCrcCalls == 2

\* bytes with no bit, the low bit, the high bit and all bits set
CrcBytes == {0, 1, 128, 255}

\* "123456789", the usual check input of CRC-32
CheckInput == <<49, 50, 51, 52, 53, 54, 55, 56, 57>>

\* every sequence of up to two of the bytes, and the check input
CrcInputs ==
    {<<>>} \cup {<<a>> : a \in CrcBytes} \cup {<<a, b>> : a, b \in CrcBytes}
    \cup {CheckInput}

CalculateCRC32(data) ==
    /\ Len(trace) < MaxCrcCalls
    /\ cachedTable' = getCRC32Table(cachedTable)
    /\ trace' = Append(trace, [ev |-> "calculateCRC32", data |-> data,
                               table |-> getCRC32Table(cachedTable),
                               result |-> calculateCRC32On(getCRC32Table(cachedTable),
                                                           data)])
    /\ UNCHANGED <<input, fed, consumed, buffer, started, flowing, handshakeComplete,
                   running, pending, packageInfo, sessions, published, serverStarted,
                   server, hostPc, stops, mmapVars, wsVars, exitState, transport,
                   otherParser, viewer>>

NextCRC == \E data \in CrcInputs : CalculateCRC32(data)

SpecCRC == InitStore /\ [][NextCRC]_vars

\* One step of the bitwise definition of the reflected CRC-32: shift right,
\* and subtract the polynomial 0xEDB88320 if a one was shifted out
RECURSIVE ReferenceBits(_, _)
ReferenceBits(crc, n) ==
    IF n = 0 THEN crc
    ELSE ReferenceBits(IF crc[2] % 2 = 1 THEN Xor32(Shr1(crc), <<60856, 33568>>)
                       ELSE Shr1(crc), n - 1)

\* The bitwise definition: start from 0xFFFFFFFF, add each byte into the low
\* bits and shift eight times, complement at the end
RECURSIVE ReferenceLoop(_, _, _)
ReferenceLoop(crc, data, i) ==
    IF i > Len(data) THEN crc
    ELSE CHOOSE result \in
             {ReferenceLoop(next, data, i + 1) :
                 next \in {ReferenceBits(Xor32(crc, <<0, data[i]>>), 8)}} : TRUE

ReferenceCRC32(data) ==
    Xor32(ReferenceLoop(<<65535, 65535>>, data, 1), <<65535, 65535>>)

\* every logged result is the standard CRC-32 of its input, lies in
\* 0..2^32-1, is 0 for the empty input and 0xCBF43926 for "123456789"
ResultsAreStandard ==
    \A i \in DOMAIN trace :
        /\ trace[i].result = ReferenceCRC32(trace[i].data)
        /\ trace[i].result[1] \in 0..65535 /\ trace[i].result[2] \in 0..65535
        /\ trace[i].data = <<>> => trace[i].result = <<0, 0>>
        /\ trace[i].data = CheckInput => trace[i].result = <<52212, 14630>>

\* the table exists exactly when a checksum has been computed, and it is
\* still the table every earlier call has used
TableBuiltOnce ==
    /\ (trace = <<>>) <=> (cachedTable = NoTable)
    /\ \A i \in DOMAIN trace : trace[i].table = cachedTable

\* C38: calculateCRC32 is the standard reflected CRC-32 (polynomial
\* 0xEDB88320, initial value and final XOR 0xFFFFFFFF) of every byte
\* sequence, an unsigned 32-bit value that is 0 for the empty payload, and
\* its table is computed once and not modified afterwards.
C38_StandardCRC32 ==
    /\ ResultsAreStandard
    /\ TableBuiltOnce

\* C38 witness: the checksum of "123456789" and then of the byte 255 were
\* computed, the second with the table the first call built.
C38_Witness ==
    /\ Len(trace) = 2
    /\ trace[1].data = CheckInput
    /\ trace[1].result = <<52212, 14630>>
    /\ trace[2].data = <<255>>
    /\ trace[2].table = trace[1].table
    /\ cachedTable # NoTable

(***************************************************************************)
(* The subscriber set (websocket.js initWebSocket 123-154, broadcast       *)
(* 196-206, closeAllConnections 224-236)                                   *)
(***************************************************************************)

\* shutdown after `initialized`, followed by another message
SubscriberStreams == ShutdownStreams

InitSubscribers ==
    /\ input \in SubscriberStreams
    /\ fed = <<>>
    /\ consumed = <<>>
    /\ buffer = <<>>
    /\ started = FALSE
    /\ flowing = FALSE
    /\ handshakeComplete = FALSE
    /\ running = FALSE
    /\ pending = <<>>
    /\ packageInfo = FALSE
    /\ trace = <<>>
    /\ sessions = {}
    /\ published = <<>>
    /\ serverStarted = FALSE
    /\ server = "null"
    /\ hostPc = "idle"
    /\ stops = 0
    /\ InitMmap("linux")
    /\ InitWs
    /\ exitState = "running"
    /\ transport = defaultTransport
    /\ otherParser = NewParser
    /\ cachedTable = NoTable
    /\ viewer = NewViewer

NextSubscribers ==
    \/ NextBroadcast
    \/ ParseShutdown
    \/ StopServerDone

SpecSubscribers == InitSubscribers /\ [][NextSubscribers]_vars

\* the sockets that have raised 'connection'
Connected == {w \in Sockets : readyState[w] # "NONE"}

\* closeAllConnections has run
ClosedAll == exitState # "running"

\* until closeAllConnections, the set holds the connected sockets that have
\* raised neither 'close' nor 'error'
SubscribersExact == ~ClosedAll => Registered = Connected \ raised

\* after closeAllConnections the set is empty and every socket that was
\* connected is closing or closed
EmptyAndClosing ==
    ClosedAll => /\ clients = <<>>
                 /\ \A w \in Connected : readyState[w] \in {"CLOSING", "CLOSED"}

\* a broadcast after closeAllConnections sends nothing
BroadcastToNobody ==
    (ClosedAll /\ Len(published') > Len(published)) => sent' = sent

\* the step of closeAllConnections closes every client of the set
AsksEveryClient ==
    (~ClosedAll /\ ClosedAll') =>
        \A w \in Registered : readyState'[w] \in {"CLOSING", "CLOSED"}

\* C39: the subscriber set holds exactly the clients that have connected and
\* have raised neither 'close' nor 'error'; after closeAllConnections it is
\* empty, every former client has been asked to close, and a later
\* broadcast delivers to nobody.
C39_SubscriberSet ==
    /\ []SubscribersExact
    /\ []EmptyAndClosing
    /\ [][BroadcastToNobody /\ AsksEveryClient]_vars

\* C39 witness: one client raised 'close' or 'error' and left the set, the other was
\* still subscribed when closeAllConnections ran and is closing; a second
\* shutdown message was broadcast afterwards and reached nobody.
C39_Witness ==
    /\ exitState = "stopping"
    /\ clients = <<>>
    /\ raised = {"w1"}
    /\ readyState["w2"] = "CLOSING"
    /\ Len(published) >= 2
    /\ published[Len(published)].type = "shutdown"
    /\ published[Len(published) - 1].type = "shutdown"
    /\ Len(SelectSeq(sent["w2"], LAMBDA m : m.type = "shutdown")) = 1

(***************************************************************************)
(* The viewer's reconnect logic (public/app.js connectWebSocket 164-198,   *)
(* attemptReconnect 221-235).  The page is a process of its own; the       *)
(* handlers' log lines and status display are not followed.                *)
(***************************************************************************)

\* state.maxReconnectAttempts
maxReconnectAttempts == 10

\* The close events followed
MaxCloses == 12

\* state.ws = new WebSocket(wsUrl)
connectWebSocket(v) == [v EXCEPT !.ws = "CONNECTING"]

\* Mutant: attemptReconnect schedules a reconnect whatever the counter is.
attemptReconnectMutNoLimit(v) ==
    [v EXCEPT !.reconnectAttempts = @ + 1, !.timers = @ + 1, !.scheduled = @ + 1]

\* attemptReconnect: nothing once the counter has reached the maximum,
\* otherwise the counter is incremented and connectWebSocket is scheduled
attemptReconnect(v) ==
    IF v.reconnectAttempts >= maxReconnectAttempts THEN v
    ELSE [v EXCEPT !.reconnectAttempts = @ + 1, !.timers = @ + 1, !.scheduled = @ + 1]

\* init(): the page connects when it is loaded
ViewerInit ==
    /\ viewer.ws = "null"
    /\ viewer' = connectWebSocket(viewer)
    /\ UNCHANGED <<stdinVars, parserVars, trace, hostVars, mmapVars, wsVars, exitState,
                   transport, otherParser, cachedTable>>

\* state.ws.onopen: the counter is reset
ViewerOnOpen ==
    /\ viewer.ws = "CONNECTING"
    /\ viewer' = [viewer EXCEPT !.ws = "OPEN", !.reconnectAttempts = 0, !.opens = @ + 1]
    /\ UNCHANGED <<stdinVars, parserVars, trace, hostVars, mmapVars, wsVars, exitState,
                   transport, otherParser, cachedTable>>

\* state.ws.onclose, raised once for a socket that fails to connect or whose
\* connection ends: attemptReconnect()
ViewerOnClose ==
    /\ viewer.ws \in {"CONNECTING", "OPEN"}
    /\ viewer.closes < MaxCloses
    /\ viewer' = attemptReconnect([viewer EXCEPT !.ws = "CLOSED", !.closes = @ + 1])
    /\ UNCHANGED <<stdinVars, parserVars, trace, hostVars, mmapVars, wsVars, exitState,
                   transport, otherParser, cachedTable>>

\* the setTimeout callback: connectWebSocket()
ViewerTimer ==
    /\ viewer.timers > 0
    /\ viewer' = connectWebSocket([viewer EXCEPT !.timers = @ - 1])
    /\ UNCHANGED <<stdinVars, parserVars, trace, hostVars, mmapVars, wsVars, exitState,
                   transport, otherParser, cachedTable>>

NextViewer ==
    \/ ViewerInit
    \/ ViewerOnOpen
    \/ ViewerOnClose
    \/ ViewerTimer

SpecViewer == InitStore /\ [][NextViewer]_vars

\* the counter stays within 0..maxReconnectAttempts
AttemptsBounded == viewer.reconnectAttempts \in 0..maxReconnectAttempts

\* no more reconnects have been scheduled than sockets have closed, and a
\* pending reconnect and a live socket never exist together
OnePerClose ==
    /\ viewer.scheduled <= viewer.closes
    /\ viewer.timers + (IF viewer.ws \in {"CONNECTING", "OPEN"} THEN 1 ELSE 0) <= 1

\* a step in which a socket closes, and one in which a socket opens
Closes == viewer'.closes = viewer.closes + 1

Opens == viewer'.opens = viewer.opens + 1

\* a close schedules at most one reconnect, and none at the maximum
CloseSchedulesAtMostOne ==
    Closes =>
        /\ viewer'.scheduled <= viewer.scheduled + 1
        /\ viewer'.timers <= viewer.timers + 1
        /\ viewer.reconnectAttempts = maxReconnectAttempts =>
              /\ viewer'.scheduled = viewer.scheduled
              /\ viewer'.timers = viewer.timers
              /\ viewer'.reconnectAttempts = maxReconnectAttempts

\* an open resets the counter
OpenResets == Opens => viewer'.reconnectAttempts = 0

\* C40: after a close the viewer schedules at most one reconnect,
\* reconnectAttempts never exceeds maxReconnectAttempts, every successful
\* open resets it to 0, and once the maximum is reached a close schedules
\* no further reconnect.
C40_ReconnectBounded ==
    /\ []AttemptsBounded
    /\ []OnePerClose
    /\ [][CloseSchedulesAtMostOne /\ OpenResets]_vars

\* C40 witness: the socket opened once, then ten reconnects failed in a
\* row, and the close of the last one scheduled nothing.
C40_Witness ==
    /\ viewer.opens = 1
    /\ viewer.reconnectAttempts = maxReconnectAttempts
    /\ viewer.ws = "CLOSED"
    /\ viewer.timers = 0
    /\ viewer.closes = 11
    /\ viewer.scheduled = 10

====
